---- MODULE Spec2Model ----
(***************************************************************************)
(* Annotation rendering engine of mwp-zotero-tools (zotero-api.el):        *)
(* reading-order sorter, chapter resolver, heading stack and document      *)
(* assembler.                                                              *)
(*                                                                         *)
(* Strings that the code inspects character by character (page labels,     *)
(* sort indices, chapter positions) are sequences of one-character         *)
(* strings; Nil stands for elisp nil where a string is optional.  Titles   *)
(* and texts, which the code only compares and copies, are TLA+ strings.   *)
(***************************************************************************)
EXTENDS Integers, Sequences, FiniteSets, TLC

VARIABLES
    pc,               \* position of the running function
    syntax,           \* "org" (zotero-format-as-org-mode) or "md" (zotero-format-as-markdown)
    citation_key,     \* citation-key argument of the assemblers
    annotations,      \* raw annotation list of the current attachment / sorter input
    sorted_anns,      \* sorted-anns
    chapter_map,      \* chapter-map of the current attachment / resolver input
    page_label,       \* page-label argument of the resolver / label helpers
    sort_index,       \* sort-index of the annotation whose effective label is computed
    effective_label,  \* effective-label
    chapters,         \* chapters: result of zotero--get-chapters-for-page
    current_chapters, \* current-chapters hash table: level -> title
    content,          \* org-content / md-content, in output order
    n_attachments,    \* (length attachments)
    att_index,        \* number of attachments whose processing has begun
    ann_index,        \* number of annotations of this attachment whose processing has begun
    ch_index,         \* number of elements of chapters already visited for this annotation
    att_mark,         \* history: Len(content) after the current attachment's header
    ann_mark,         \* history: Len(content) when the current annotation began
    prev_chapters,    \* history: chain resolved for the previous annotation of this attachment
    budget,           \* annotations the item may still supply (bound of the model)
    annotations_data, \* annotations-data: the aggregate record handed to the assemblers
    calls,            \* concurrent renders: call id -> the locals of that call
    heap,             \* hash tables made by make-hash-table, by the order of their making
    repair_text,      \* text: argument of zotero-normalize-text-encoding, rewritten in place
    case_fold_search, \* case-fold-search in force when the text is repaired
    repairs,          \* history: the argument and the value of each repair made so far
    attachment_id,    \* attachment-id / attachmentKey argument of the link builders
    annotation_key,   \* annotation-key argument / annotation.key
    library_id,       \* library-id / libraryID of the item rendered
    content_type,     \* contentType argument of generateZoteroOrgLink
    built_link,       \* link: value of the link builder called last
    zotero__bbt_available, \* zotero--bbt-available: "nil" (unchecked), "t" or "unavailable"
    requests,         \* history: the service requests made, oldest first
    result            \* value of the citation-key function called last

\* The variables of the text repair, the link builders and the citation-key lookup,
\* and their values while none of them runs.
helperVars == <<repair_text, case_fold_search, repairs, attachment_id, annotation_key, library_id,
                content_type, built_link, zotero__bbt_available, requests, result>>

RepairAtRest == repair_text = <<>> /\ case_fold_search = TRUE /\ repairs = <<>>

LinkAtRest ==
    /\ attachment_id = <<>> /\ annotation_key = <<>> /\ library_id = 0
    /\ content_type = "" /\ built_link = <<>>

CitationKeyAtRest == zotero__bbt_available = "nil" /\ requests = <<>> /\ result = <<>>

HelpersAtRest == RepairAtRest /\ LinkAtRest /\ CitationKeyAtRest

vars == <<pc, syntax, citation_key, annotations, sorted_anns, chapter_map, page_label, sort_index,
          effective_label, chapters, current_chapters, content, n_attachments,
          att_index, ann_index, ch_index, att_mark, ann_mark, prev_chapters, budget,
          annotations_data, calls, heap, helperVars>>

\* The variables only the assemblers use, and their values while none runs.
asmVars == <<syntax, citation_key, current_chapters, content, n_attachments, att_index,
             ann_index, ch_index, att_mark, ann_mark, prev_chapters, budget,
             annotations_data, calls, heap>>

NoCitationKey == "<nil>"

AssemblerAtRest ==
    /\ syntax = "org" /\ citation_key = NoCitationKey
    /\ current_chapters = <<>> /\ content = <<>>
    /\ n_attachments = 0 /\ att_index = 0 /\ ann_index = 0 /\ ch_index = 0
    /\ att_mark = 0 /\ ann_mark = 0 /\ prev_chapters = <<>> /\ budget = 0
    /\ annotations_data = <<>>
    /\ calls = <<>> /\ heap = <<>>

----------------------------------------------------------------------------
(* Strings *)

Nil == <<"nil">>

Digits == {"0", "1", "2", "3", "4", "5", "6", "7", "8", "9"}

DigitVal(c) ==
    CASE c = "0" -> 0 [] c = "1" -> 1 [] c = "2" -> 2 [] c = "3" -> 3 [] c = "4" -> 4
      [] c = "5" -> 5 [] c = "6" -> 6 [] c = "7" -> 7 [] c = "8" -> 8 [] c = "9" -> 9

DigitChar(d) ==
    CASE d = 0 -> "0" [] d = 1 -> "1" [] d = 2 -> "2" [] d = 3 -> "3" [] d = 4 -> "4"
      [] d = 5 -> "5" [] d = 6 -> "6" [] d = 7 -> "7" [] d = 8 -> "8" [] d = 9 -> "9"

\* Character codes of the characters the model's strings are made of.
CharCode(c) ==
    IF c \in Digits THEN 48 + DigitVal(c)
    ELSE CASE c = " " -> 32 [] c = "-" -> 45 [] c = "C" -> 67 [] c = "h" -> 104
           [] c = "i" -> 105 [] c = "v" -> 118 [] c = "|" -> 124

\* (or x default)
OrDefault(x, default) == IF x = Nil THEN default ELSE x

\* string<: lexicographic by character code, a proper prefix is smaller.
RECURSIVE StringLess(_, _)
StringLess(a, b) ==
    IF b = <<>> THEN FALSE
    ELSE IF a = <<>> THEN TRUE
    ELSE IF CharCode(Head(a)) # CharCode(Head(b))
         THEN CharCode(Head(a)) < CharCode(Head(b))
         ELSE StringLess(Tail(a), Tail(b))

\* Length of the longest prefix of s made of digits (regexp \`[0-9]+ / strtol).
RECURSIVE DigitRun(_)
DigitRun(s) ==
    IF s # <<>> /\ Head(s) \in Digits THEN 1 + DigitRun(Tail(s)) ELSE 0

RECURSIVE SkipBlanks(_)
SkipBlanks(s) == IF s # <<>> /\ Head(s) = " " THEN SkipBlanks(Tail(s)) ELSE s

\* Value of a string of digits.
RECURSIVE DigitsValue(_)
DigitsValue(s) ==
    IF s = <<>> THEN 0
    ELSE 10 * DigitsValue(SubSeq(s, 1, Len(s) - 1)) + DigitVal(s[Len(s)])

\* string-to-number: leading blanks are skipped, then an optional sign and the
\* longest run of digits are read; anything else, and whatever follows, yields 0
\* or is ignored.  It never signals an error for a string.
StringToNumber(s) ==
    LET t    == SkipBlanks(s)
        neg  == t # <<>> /\ Head(t) = "-"
        body == IF neg THEN Tail(t) ELSE t
        val  == DigitsValue(SubSeq(body, 1, DigitRun(body)))
    IN  IF neg THEN 0 - val ELSE val

RECURSIVE NatDigits(_)
NatDigits(n) ==
    IF n < 10 THEN <<DigitChar(n)>> ELSE NatDigits(n \div 10) \o <<DigitChar(n % 10)>>

RECURSIVE Zeros(_)
Zeros(k) == IF k <= 0 THEN <<>> ELSE <<"0">> \o Zeros(k - 1)

PadWidth == 5

\* (format "%05d" n): at least five characters, zero-filled after the sign.
Format05d(n) ==
    IF n >= 0
    THEN Zeros(PadWidth - Len(NatDigits(n))) \o NatDigits(n)
    ELSE <<"-">> \o Zeros(PadWidth - 1 - Len(NatDigits(0 - n))) \o NatDigits(0 - n)

----------------------------------------------------------------------------
(* ReadingOrderSorter *)

\* zotero--annotation-sort-key.  The condition-case handler ("99999") is only
\* reached when string-to-number signals, which it does for no string.
AnnotationSortKeyUnpadded(annotation) ==
    LET idx == OrDefault(annotation.annotationSortIndex, <<>>)
    IN  IF idx # <<>> THEN idx
        ELSE NatDigits(StringToNumber(OrDefault(annotation.annotationPageLabel, <<"0">>)))

AnnotationSortKey(annotation) ==
    LET idx == OrDefault(annotation.annotationSortIndex, <<>>)
    IN  IF idx # <<>> THEN idx
        ELSE Format05d(StringToNumber(OrDefault(annotation.annotationPageLabel, <<"0">>)))

\* The predicate handed to sort.
SortPredicateNotGreater(a, b) == ~StringLess(AnnotationSortKey(b), AnnotationSortKey(a))

SortPredicate(a, b) == StringLess(AnnotationSortKey(a), AnnotationSortKey(b))

\* sort's merge step: an element of the second list is taken only when the
\* predicate puts it strictly before the head of the first (stable).
RECURSIVE Merge(_, _)
Merge(l1, l2) ==
    IF l1 = <<>> THEN l2
    ELSE IF l2 = <<>> THEN l1
    ELSE IF SortPredicate(Head(l2), Head(l1))
         THEN <<Head(l2)>> \o Merge(l1, Tail(l2))
         ELSE <<Head(l1)>> \o Merge(Tail(l1), l2)

RECURSIVE MergeSort(_)
MergeSort(l) ==
    IF Len(l) < 2 THEN l
    ELSE LET half == Len(l) \div 2
         IN  Merge(MergeSort(SubSeq(l, 1, half)), MergeSort(SubSeq(l, half + 1, Len(l))))

\* zotero-sort-annotations
ZoteroSortAnnotations(anns) == MergeSort(anns)

----------------------------------------------------------------------------
(* Spine index and effective position *)

MinSpineLen == 5

\* zotero--is-spine-index
IsSpineIndexLonger(label) ==
    /\ label # Nil
    /\ label # <<>>
    /\ DigitRun(label) = Len(label)
    /\ Len(label) > MinSpineLen

IsSpineIndex(label) ==
    /\ label # Nil
    /\ label # <<>>
    /\ DigitRun(label) = Len(label)
    /\ Len(label) >= MinSpineLen

\* effective-label of the assemblers: the leading digits of the sort index when
\* the page label is a spine index and the sort index starts with a digit.
EffectiveLabelAnyIndex(annotation) ==
    LET label == OrDefault(annotation.annotationPageLabel, <<>>)
        idx   == OrDefault(annotation.annotationSortIndex, <<>>)
    IN  IF IsSpineIndex(label)
        THEN SubSeq(idx, 1, DigitRun(idx))
        ELSE label

EffectiveLabel(annotation) ==
    LET label == OrDefault(annotation.annotationPageLabel, <<>>)
        idx   == OrDefault(annotation.annotationSortIndex, <<>>)
    IN  IF IsSpineIndex(label) /\ DigitRun(idx) > 0
        THEN SubSeq(idx, 1, DigitRun(idx))
        ELSE label

----------------------------------------------------------------------------
(* ChapterResolver *)

\* A hash table with integer keys is a function from the keys it holds.
EmptyHash == <<>>

PutHash(h, k, v) == [x \in DOMAIN h \cup {k} |-> IF x = k THEN v ELSE h[x]]

ClearDeeperNone(h, level) == h

\* (maphash (lambda (k _v) (when (> k level) (remhash k table))) table)
ClearDeeper(h, level) == [x \in {k \in DOMAIN h : k <= level} |-> h[x]]

\* One iteration of the numeric scan.
RecordEntryKeepDeeper(h, entry, target) ==
    IF StringToNumber(entry.lbl) <= target
    THEN PutHash(h, entry.level, entry.title)
    ELSE h

RecordEntry(h, entry, target) ==
    IF StringToNumber(entry.lbl) <= target
    THEN ClearDeeper(PutHash(h, entry.level, entry.title), entry.level)
    ELSE h

RECURSIVE NearestByLevel(_, _, _)
NearestByLevel(map, target, h) ==
    IF map = <<>> THEN h
    ELSE NearestByLevel(Tail(map), target, RecordEntry(h, Head(map), target))

\* The table's (title level) pairs, sorted by level.
RECURSIVE SortedByLevelDescending(_)
SortedByLevelDescending(h) ==
    IF DOMAIN h = {} THEN <<>>
    ELSE LET l == CHOOSE x \in DOMAIN h : \A y \in DOMAIN h : y <= x
         IN  <<[title |-> h[l], level |-> l]>>
                 \o SortedByLevelDescending([x \in DOMAIN h \ {l} |-> h[x]])

RECURSIVE SortedByLevel(_)
SortedByLevel(h) ==
    IF DOMAIN h = {} THEN <<>>
    ELSE LET l == CHOOSE x \in DOMAIN h : \A y \in DOMAIN h : x <= y
         IN  <<[title |-> h[l], level |-> l]>>
                 \o SortedByLevel([x \in DOMAIN h \ {l} |-> h[x]])

\* The exact-match scan: found is overwritten by every matching entry.
RECURSIVE ExactMatchCollect(_, _, _)
ExactMatchCollect(map, label, found) ==
    IF map = <<>> THEN found
    ELSE ExactMatchCollect(Tail(map), label,
             IF Head(map).lbl = label
             THEN found \o <<[title |-> Head(map).title, level |-> Head(map).level]>>
             ELSE found)

RECURSIVE ExactMatch(_, _, _)
ExactMatch(map, label, found) ==
    IF map = <<>> THEN found
    ELSE ExactMatch(Tail(map), label,
             IF Head(map).lbl = label
             THEN <<[title |-> Head(map).title, level |-> Head(map).level]>>
             ELSE found)

\* zotero--get-chapters-for-page
GetChaptersForPage(map, label) ==
    IF map = <<>> \/ label = Nil \/ label = <<>> THEN <<>>
    ELSE LET target == StringToNumber(label)
         IN  IF target # 0
             THEN SortedByLevel(NearestByLevel(map, target, EmptyHash))
             ELSE ExactMatch(map, label, <<>>)

----------------------------------------------------------------------------
(* Inputs of the sorter *)

MaxSortAnns == 3

S5 == <<"5">>
S20 == <<"2", "0">>
Siv == <<"i", "v">>
S00055 == <<"0", "0", "0", "5", "5">>
Idx05 == <<"0", "0", "0", "0", "5", "|", "1">>
Idx12 == <<"0", "0", "0", "1", "2", "|", "1">>
Idx20 == <<"0", "0", "0", "2", "0", "|", "1">>

SortPageLabels == {Nil, <<>>, S5, S20, Siv, S00055}
SortIndices == {Nil, <<>>, Idx12}

\* Annotation records carry the fields of the 'data alist the code reads.
Annotation(key, label, idx, type, text) ==
    [key |-> key, annotationPageLabel |-> label, annotationSortIndex |-> idx,
     annotationType |-> type, annotationText |-> text, annotationComment |-> "",
     tags |-> <<>>]

\* All lists of length n of (label, index) pairs; the key is the input position.
SortInputsOfLen(n) ==
    {[i \in 1..n |-> Annotation(i, f[i][1], f[i][2], "highlight", "T")] :
        f \in [1..n -> SortPageLabels \X SortIndices]}

\* The list of test-zotero-sort-annotations-by-sort-index.
SortIndexExample ==
    <<Annotation(1, Nil, Idx20, "highlight", "T"),
      Annotation(2, Nil, Idx05, "highlight", "T"),
      Annotation(3, Nil, Idx12, "highlight", "T")>>

InitSort ==
    /\ pc = "sort_input"
    /\ \/ \E n \in 0..MaxSortAnns : annotations \in SortInputsOfLen(n)
       \/ annotations = SortIndexExample
    /\ sorted_anns = <<>> /\ chapter_map = <<>> /\ chapters = <<>>
    /\ page_label = <<>> /\ sort_index = <<>> /\ effective_label = <<>>
    /\ AssemblerAtRest
    /\ HelpersAtRest

\* A call of zotero-sort-annotations.
SortAnnotations ==
    /\ pc = "sort_input"
    /\ sorted_anns' = ZoteroSortAnnotations(annotations)
    /\ pc' = "sorted"
    /\ UNCHANGED <<annotations, chapter_map, page_label, sort_index, effective_label,
                   chapters, asmVars, helperVars>>

NextSort == SortAnnotations

SpecSort == InitSort /\ [][NextSort]_vars

----------------------------------------------------------------------------
(* Claims about the sorter *)

AllDigits(s) == s # Nil /\ s # <<>> /\ \A i \in 1..Len(s) : s[i] \in Digits

HasSortIndex(a) == a.annotationSortIndex # Nil /\ a.annotationSortIndex # <<>>

RECURSIVE StripZeros(_)
StripZeros(s) == IF Len(s) > 1 /\ Head(s) = "0" THEN StripZeros(Tail(s)) ELSE s

\* The key as the specification words it, for the annotations it words it for:
\* the sort index verbatim, else the digits of the page label left-padded with
\* zeros to five characters.
StatedKey(a) ==
    IF HasSortIndex(a) THEN a.annotationSortIndex
    ELSE LET d == StripZeros(a.annotationPageLabel)
         IN  [i \in 1..(IF Len(d) < 5 THEN 5 ELSE Len(d)) |->
                 IF i <= 5 - Len(d) THEN "0" ELSE d[i - (IF Len(d) < 5 THEN 5 - Len(d) ELSE 0)]]

HasStatedKey(a) == HasSortIndex(a) \/ AllDigits(a.annotationPageLabel)

IsPermutation(l, m) ==
    /\ Len(l) = Len(m)
    /\ {l[i] : i \in 1..Len(l)} = {m[i] : i \in 1..Len(m)}

\* C4: the sorter returns a permutation of its input in ascending string order of
\* the derived key (sort index verbatim, else the page number zero-padded to five
\* digits); pages without sort index come out in numeric order ("5" before "20"),
\* and indices 00020, 00005, 00012 come out as 00005, 00012, 00020.
C4_SortedByDerivedKey ==
    pc = "sorted" =>
        /\ IsPermutation(annotations, sorted_anns)
        /\ \A i, j \in 1..Len(sorted_anns) :
              (i < j /\ HasStatedKey(sorted_anns[i]) /\ HasStatedKey(sorted_anns[j])) =>
                  /\ ~StringLess(StatedKey(sorted_anns[j]), StatedKey(sorted_anns[i]))
                  /\ (/\ ~HasSortIndex(sorted_anns[i]) /\ ~HasSortIndex(sorted_anns[j])
                      /\ Len(sorted_anns[i].annotationPageLabel) <= 5
                      /\ Len(sorted_anns[j].annotationPageLabel) <= 5) =>
                         DigitsValue(sorted_anns[i].annotationPageLabel)
                             <= DigitsValue(sorted_anns[j].annotationPageLabel)
        /\ annotations = SortIndexExample =>
              /\ sorted_anns[1].annotationSortIndex = Idx05
              /\ sorted_anns[2].annotationSortIndex = Idx12
              /\ sorted_anns[3].annotationSortIndex = Idx20

\* Page "20" was given before page "5", neither with a sort index, and the sorter
\* has put "5" first.
C4_Witness ==
    /\ pc = "sorted"
    /\ \E i, j \in 1..Len(annotations) :
          /\ i < j
          /\ ~HasSortIndex(annotations[i]) /\ annotations[i].annotationPageLabel = S20
          /\ ~HasSortIndex(annotations[j]) /\ annotations[j].annotationPageLabel = S5
          /\ \E k, l \in 1..Len(sorted_anns) :
                k < l /\ sorted_anns[k].key = j /\ sorted_anns[l].key = i

\* C5: the sorter is stable and total: annotations with the same key keep their
\* input order and are adjacent, and sorting the result again changes nothing.
C5_StableAndIdempotent ==
    pc = "sorted" =>
        /\ Len(sorted_anns) = Len(annotations)
        /\ \A i, j \in 1..Len(sorted_anns) :
              (i < j /\ AnnotationSortKey(sorted_anns[i]) = AnnotationSortKey(sorted_anns[j])) =>
                  /\ sorted_anns[i].key < sorted_anns[j].key
                  /\ \A k \in i..j :
                        AnnotationSortKey(sorted_anns[k]) = AnnotationSortKey(sorted_anns[i])
        /\ ZoteroSortAnnotations(sorted_anns) = sorted_anns

\* Two annotations with the same key were given apart from each other, with an
\* annotation of another key between them, and have been sorted.
C5_Witness ==
    /\ pc = "sorted"
    /\ Len(annotations) >= 3
    /\ AnnotationSortKey(annotations[1]) = AnnotationSortKey(annotations[3])
    /\ StringLess(AnnotationSortKey(annotations[2]), AnnotationSortKey(annotations[1]))

Unparseable(a) == ~HasSortIndex(a) /\ ~AllDigits(a.annotationPageLabel)

Nines == <<"9", "9", "9", "9", "9">>

\* C6: an annotation without sort index whose page label is not a number gets the
\* key "99999" and sorts after every annotation with a numeric page label.
C6_UnparseableSortsLast ==
    pc = "sorted" =>
        \A i \in 1..Len(sorted_anns) :
            Unparseable(sorted_anns[i]) =>
                /\ AnnotationSortKey(sorted_anns[i]) = Nines
                /\ \A j \in 1..Len(sorted_anns) :
                      (~HasSortIndex(sorted_anns[j])
                         /\ AllDigits(sorted_anns[j].annotationPageLabel)) => j < i

----------------------------------------------------------------------------
(* Inputs of the chapter resolver *)

MaxResolveMap == 3

S0 == <<"0">>
S1 == <<"1">>
S2 == <<"2">>
S3 == <<"3">>
S6 == <<"6">>
S10 == <<"1", "0">>
S25 == <<"2", "5">>

ChapterEntry(title, lbl, level) == [title |-> title, lbl |-> lbl, level |-> level]

ResolveTitles == {"A", "B"}
ResolveEntryLabels == {S2, Siv}
ResolveLevels == {1, 2, 3}
S2v == <<"2", "v">>
ResolveTargets == {Nil, <<>>, S0, S1, S2, S2v, Siv}

ResolveEntries ==
    {ChapterEntry(t, l, v) : t \in ResolveTitles, l \in ResolveEntryLabels, v \in ResolveLevels}

ResolveMaps == UNION {[1..n -> ResolveEntries] : n \in 0..MaxResolveMap}

\* The chapter map of test-zotero--get-chapters-for-page-numeric.
NumericExampleMap ==
    <<ChapterEntry("Introduction", S1, 1), ChapterEntry("Background", S5, 1),
      ChapterEntry("1.1 History", S6, 2), ChapterEntry("Methods", S20, 1)>>

InitResolve ==
    /\ pc = "resolve_input"
    /\ \/ chapter_map \in ResolveMaps /\ page_label \in ResolveTargets
       \/ chapter_map = NumericExampleMap /\ page_label \in {S3, S10, S25}
    /\ annotations = <<>> /\ sorted_anns = <<>> /\ chapters = <<>>
    /\ sort_index = <<>> /\ effective_label = <<>>
    /\ AssemblerAtRest
    /\ HelpersAtRest

\* A call of zotero--get-chapters-for-page.
GetChapters ==
    /\ pc = "resolve_input"
    /\ chapters' = GetChaptersForPage(chapter_map, page_label)
    /\ pc' = "resolved"
    /\ UNCHANGED <<annotations, sorted_anns, chapter_map, page_label, sort_index,
                   effective_label, asmVars, helperVars>>

NextResolve == GetChapters

SpecResolve == InitResolve /\ [][NextResolve]_vars

----------------------------------------------------------------------------
(* Claims about the chapter resolver *)

HasLabel == page_label # Nil /\ page_label # <<>>

NumericMode == chapter_map # <<>> /\ HasLabel /\ StringToNumber(page_label) # 0

ExactMode == chapter_map # <<>> /\ HasLabel /\ StringToNumber(page_label) = 0

\* Entry i lies at or before the target position.
Qualifies(i) == StringToNumber(chapter_map[i].lbl) <= StringToNumber(page_label)

\* No later qualifying entry overwrites (same level) or evicts (shallower) entry i.
Survives(i) ==
    /\ Qualifies(i)
    /\ \A j \in (i + 1)..Len(chapter_map) :
          Qualifies(j) => chapter_map[j].level > chapter_map[i].level

PairOf(i) == [title |-> chapter_map[i].title, level |-> chapter_map[i].level]

Range(q) == {q[k] : k \in 1..Len(q)}

\* C3: in numeric mode the resolver records, in map order, every entry at or before
\* the target at its level, overwriting that level and evicting deeper ones; the
\* result is exactly the surviving (title, level) pairs.  With the map of the unit
\* test, 10 gives Background > 1.1 History, 3 gives Introduction, 25 gives Methods.
C3_NumericScan ==
    (pc = "resolved" /\ NumericMode) =>
        /\ Range(chapters) = {PairOf(i) : i \in {x \in 1..Len(chapter_map) : Survives(x)}}
        /\ Len(chapters) = Cardinality(Range(chapters))
        /\ chapter_map = NumericExampleMap =>
              /\ page_label = S10 =>
                    chapters = <<[title |-> "Background", level |-> 1],
                                 [title |-> "1.1 History", level |-> 2]>>
              /\ page_label = S3 => chapters = <<[title |-> "Introduction", level |-> 1]>>
              /\ page_label = S25 => chapters = <<[title |-> "Methods", level |-> 1]>>

\* A deeper entry at or before the target was evicted by a later shallower one, and
\* the resolver has answered with a non-empty chain.
C3_Witness ==
    /\ pc = "resolved" /\ NumericMode /\ chapters # <<>>
    /\ \E i, j \in 1..Len(chapter_map) :
          /\ i < j /\ Qualifies(i) /\ Qualifies(j)
          /\ chapter_map[j].level < chapter_map[i].level

\* C8: in exact-match mode the resolver returns one (title, level) pair of an entry
\* whose label equals the effective label, and nothing when no entry's label
\* equals it; never more than one pair, never a nearest or numeric match.
C8_ExactMatch ==
    (pc = "resolved" /\ ExactMode) =>
        /\ Len(chapters) <= 1
        /\ chapters = <<>> <=> ~\E i \in 1..Len(chapter_map) : chapter_map[i].lbl = page_label
        /\ chapters # <<>> =>
              \E i \in 1..Len(chapter_map) :
                  chapter_map[i].lbl = page_label /\ chapters[1] = PairOf(i)

\* Two entries of different titles carry the label looked up, and the resolver has
\* answered.
C8_Witness ==
    /\ pc = "resolved" /\ ExactMode /\ chapters # <<>>
    /\ \E i, j \in 1..Len(chapter_map) :
          /\ chapter_map[i].lbl = page_label /\ chapter_map[j].lbl = page_label
          /\ chapter_map[i].title # chapter_map[j].title

\* C9: the resolver returns empty for a nil/empty map, for a nil or empty label and
\* when the numeric target precedes every entry; its result ascends by level.
C9_EmptyAndAscending ==
    pc = "resolved" =>
        /\ (chapter_map = <<>> \/ ~HasLabel) => chapters = <<>>
        /\ (NumericMode /\ \A i \in 1..Len(chapter_map) : ~Qualifies(i)) => chapters = <<>>
        /\ \A k \in 1..(Len(chapters) - 1) : chapters[k].level < chapters[k + 1].level

\* The resolver has answered with a chain of three levels.
C9_Witness == pc = "resolved" /\ Len(chapters) >= 3

\* The target precedes every entry of a non-empty map and the answer is empty.
C9_WitnessBeforeFirst ==
    /\ pc = "resolved" /\ NumericMode /\ chapters = <<>>
    /\ \A i \in 1..Len(chapter_map) : ~Qualifies(i)

----------------------------------------------------------------------------
(* Inputs of the effective-position computation *)

MaxLabelLen == 5

LabelAlphabet == {"0", "5", "v"}

LabelStrings == UNION {[1..n -> LabelAlphabet] : n \in 0..MaxLabelLen}

Idx12v == <<"1", "2", "v", "|", "3">>
Idxv1 == <<"v", "1", "|", "3">>
Idx007 == <<"0", "0", "7">>

LabelSortIndices == {Nil, <<>>, Idx12, Idx12v, Idxv1, Idx007}

InitLabel ==
    /\ pc = "label_input"
    /\ page_label \in LabelStrings \cup {Nil}
    /\ sort_index \in LabelSortIndices
    /\ annotations = <<>> /\ sorted_anns = <<>> /\ chapter_map = <<>>
    /\ chapters = <<>> /\ effective_label = <<>>
    /\ AssemblerAtRest
    /\ HelpersAtRest

\* The let* bindings page-label, sort-index, effective-label of the assemblers,
\* for an annotation with the given page label and sort index.
ComputeEffectiveLabel ==
    /\ pc = "label_input"
    /\ effective_label' =
          EffectiveLabel(Annotation(1, page_label, sort_index, "highlight", "T"))
    /\ pc' = "labelled"
    /\ UNCHANGED <<annotations, sorted_anns, chapter_map, page_label, sort_index,
                   chapters, asmVars, helperVars>>

NextLabel == ComputeEffectiveLabel

SpecLabel == InitLabel /\ [][NextLabel]_vars

----------------------------------------------------------------------------
(* Claims about the effective position *)

\* "looks like a spine index": non-empty, only digits, at least five characters.
LooksLikeSpineIndex(l) == AllDigits(l) /\ Len(l) >= 5

\* The substring before the first "|" (the whole string when there is none).
RECURSIVE BeforeBar(_)
BeforeBar(s) ==
    IF s = <<>> \/ Head(s) = "|" THEN <<>> ELSE <<Head(s)>> \o BeforeBar(Tail(s))

\* C7 as stated: the effective position is the field of the sort index before the
\* first "|" exactly when the page label looks like a spine index, and the page
\* label itself in every other case.
C7_AsStated ==
    pc = "labelled" =>
        effective_label =
            IF LooksLikeSpineIndex(page_label)
            THEN BeforeBar(OrDefault(sort_index, <<>>))
            ELSE OrDefault(page_label, <<>>)

\* C7 (amended): the effective position is the leading run of digits of the sort
\* index (the field before the first "|" when that field is all digits) exactly
\* when the page label looks like a spine index and the sort index starts with a
\* digit; in every other case it is the page label itself.
C7_EffectivePosition ==
    pc = "labelled" =>
        LET idx == OrDefault(sort_index, <<>>)
            n   == Len(effective_label)
        IN  IF LooksLikeSpineIndex(page_label) /\ idx # <<>> /\ idx[1] \in Digits
            THEN /\ n >= 1 /\ n <= Len(idx)
                 /\ effective_label = SubSeq(idx, 1, n)
                 /\ AllDigits(effective_label)
                 /\ n < Len(idx) => idx[n + 1] \notin Digits
                 /\ AllDigits(BeforeBar(idx)) => effective_label = BeforeBar(idx)
            ELSE effective_label = OrDefault(page_label, <<>>)

\* A spine-index page label with a sort index whose first field is a number: the
\* effective position is that field, not the page label.
C7_Witness ==
    /\ pc = "labelled"
    /\ LooksLikeSpineIndex(page_label)
    /\ sort_index = Idx12
    /\ effective_label = <<"0", "0", "0", "1", "2">>
    /\ effective_label # page_label

----------------------------------------------------------------------------
(* Output lines *)

\* A line of org-content / md-content: what it is, its heading markers (empty
\* unless it is a heading), the text it carries, and the annotation it links to.
\* A citation marker and a placeholder also carry a page label, a tag line its tokens.
Line(kind, marks, text, key) ==
    [kind |-> kind, marks |-> marks, text |-> text, key |-> key, page |-> <<>>,
     tokens |-> <<>>]

Blank == Line("blank", <<>>, "", 0)

\* (make-string n c)
RECURSIVE MakeString(_, _)
MakeString(n, c) == IF n <= 0 THEN <<>> ELSE <<c>> \o MakeString(n - 1, c)

HeadingChar(syn) == IF syn = "org" THEN "*" ELSE "#"

----------------------------------------------------------------------------
(* BlockRenderer: zotero--format-single-annotation-org / -md *)

\* An annotation text or comment that is absent (nil in elisp, undefined in
\* TypeScript), and an absent annotationType.
NoText == "<nil>"

PageInfoAlwaysLabel(label) == label

\* page-info of the citation marker: the page label, "?" when it is empty.
PageInfo(label) == IF label # <<>> THEN label ELSE <<"?">>

\* (format "[cite:@%s, p.%s]" citation-key page-info)
CiteLine(annotation, key) ==
    [Line("cite", <<>>, key, annotation.key) EXCEPT
        !.page = PageInfo(OrDefault(annotation.annotationPageLabel, <<>>))]

\* ann-type: (or (cdr (assq 'annotationType ann-data)) "unknown")
AnnType(annotation) ==
    IF annotation.annotationType = NoText THEN "unknown" ELSE annotation.annotationType

NonEmptyTextNilOnly(s) == s # NoText

\* (and s (not (string-empty-p s)))
NonEmptyText(s) == s # NoText /\ s # ""

\* The lines pushed by the cond on ann-type; annotationText and annotationComment
\* stand for the fields as zotero-normalize-text-encoding returns them.
AnnotationBody(syn, annotation, key) ==
    LET type    == AnnType(annotation)
        text    == annotation.annotationText
        comment == annotation.annotationComment
        link    == Line("link", <<>>, "", annotation.key)
        extra   == IF NonEmptyText(comment)
                   THEN <<Blank, Line("comment", <<>>, comment, 0)>> ELSE <<>>
    IN  IF type \in {"highlight", "underline"}
        THEN IF NonEmptyText(text)
             THEN <<link>>
                  \o (IF syn = "org"
                      THEN <<Line("begin_quote", <<>>, "", 0), Line("text", <<>>, text, 0),
                             Line("end_quote", <<>>, "", 0)>>
                      ELSE <<Blank, Line("quote", <<>>, text, 0)>>)
                  \o extra
                  \o (IF key # NoCitationKey
                      THEN <<Blank, CiteLine(annotation, key)>>
                      ELSE <<>>)
             ELSE <<>>
        ELSE IF type = "note"
        THEN <<link>>
             \o (IF ~NonEmptyText(comment) THEN <<>>
                 ELSE IF syn = "org"
                 THEN <<Line("begin_comment", <<>>, "", 0), Line("comment", <<>>, comment, 0),
                        Line("end_comment", <<>>, "", 0)>>
                 ELSE <<Blank, Line("emphasis", <<>>, comment, 0)>>)
        ELSE IF type = "image"
        THEN <<link>>
             \o (IF syn = "org"
                 THEN <<Line("begin_example", <<>>, "", 0),
                        Line("placeholder", <<>>, "[Image annotation]", 0),
                        Line("end_example", <<>>, "", 0)>>
                 ELSE <<Blank, Line("placeholder", <<>>, "[Image annotation]", 0)>>)
             \o extra
        ELSE <<>>

\* tag-names: (delq nil (mapcar (lambda (t) (cdr (assq 'tag t))) tags))
TagNames(tags) == SelectSeq(tags, LAMBDA t : t # Nil)

\* (concat ":" (mapconcat #'identity tag-names ":") ":") and the markdown
\* "Tags: `a`, `b`": the tag names are copied as they are.
TagLine(annotation, names) == [Line("tags", <<>>, "", annotation.key) EXCEPT !.tokens = names]

\* The tag line.
AnnotationTags(syn, annotation) ==
    LET names == TagNames(annotation.tags)
    IN  IF names = <<>> THEN <<>>
        ELSE IF syn = "org" THEN <<TagLine(annotation, names)>>
        ELSE <<Blank, TagLine(annotation, names)>>

FormatSingleAnnotation(syn, annotation, key) ==
    AnnotationBody(syn, annotation, key) \o AnnotationTags(syn, annotation)

----------------------------------------------------------------------------
(* AnnotationFormatter (annotationFormatter.ts): the org renderer of the export *)
(* plugin.  Its output string is kept as the list of its lines.                *)

\* Characters that \s matches.
Whitespace == {" ", "\t", "\n"}

\* String.prototype.trim on the texts and comments of the model.
Trim(str) ==
    CASE str = " "   -> ""
      [] str = " T " -> "T"
      [] OTHER       -> str

\* a || b on strings: undefined and "" are falsy.
Truthy(str) == str # NoText /\ str # ""

\* replace(/\s+/g, "_"): every maximal run of whitespace becomes one underscore.
RECURSIVE ReplaceWhitespaceRuns(_)
ReplaceWhitespaceRuns(t) ==
    IF t = <<>> THEN <<>>
    ELSE IF Head(t) \in Whitespace
    THEN IF Len(t) > 1 /\ t[2] \in Whitespace
         THEN ReplaceWhitespaceRuns(Tail(t))
         ELSE <<"_">> \o ReplaceWhitespaceRuns(Tail(t))
    ELSE <<Head(t)>> \o ReplaceWhitespaceRuns(Tail(t))

\* replace(/:/g, "-")
ReplaceColons(t) == [i \in 1..Len(t) |-> IF t[i] = ":" THEN "-" ELSE t[i]]

TsTagTokenKeepColons(t) == ReplaceWhitespaceRuns(t)

\* t.tag.replace(/\s+/g, "_").replace(/:/g, "-")
TsTagToken(t) == ReplaceColons(ReplaceWhitespaceRuns(t))

\* formatTags: "" for no tags, else ":tag1:tag2:".
TsFormatTags(annot) ==
    IF annot.tags = <<>> THEN <<>>
    ELSE <<[Line("tags", <<>>, "", annot.key) EXCEPT
               !.tokens = [i \in 1..Len(annot.tags) |-> TsTagToken(annot.tags[i])]]>>

\* The link line of generateZoteroOrgLink.
TsLink(annot) == Line("link", <<>>, "", annot.key)

\* if (comment && comment.trim()) output += "\n" + comment.trim() + "\n"
TsComment(annot) ==
    LET comment == annot.annotationComment
    IN  IF Truthy(comment) /\ Trim(comment) # ""
        THEN <<Blank, Line("comment", <<>>, Trim(comment), 0)>>
        ELSE <<>>

TsFormatHighlight(annot) ==
    LET text == IF Truthy(annot.annotationText) THEN annot.annotationText ELSE ""
    IN  <<TsLink(annot), Line("begin_quote", <<>>, "", 0), Line("text", <<>>, Trim(text), 0),
          Line("end_quote", <<>>, "", 0)>>
        \o TsComment(annot) \o TsFormatTags(annot)

TsFormatNote(annot) ==
    LET comment == IF Truthy(annot.annotationComment) THEN annot.annotationComment ELSE ""
    IN  <<TsLink(annot), Line("begin_comment", <<>>, "", 0),
          Line("comment", <<>>, Trim(comment), 0), Line("end_comment", <<>>, "", 0)>>
        \o TsFormatTags(annot)

\* `[Image annotation at ${location}]` / `[Ink/drawing annotation at ${location}]`
TsPlaceholder(annot, what) ==
    [Line("placeholder", <<>>, what, 0) EXCEPT !.page = annot.annotationPageLabel]

TsFormatImage(annot) ==
    <<TsLink(annot), Line("begin_example", <<>>, "", 0),
      TsPlaceholder(annot, "[Image annotation at]"), Line("end_example", <<>>, "", 0)>>
    \o TsComment(annot) \o TsFormatTags(annot)

TsFormatInk(annot) ==
    <<TsLink(annot), Line("begin_example", <<>>, "", 0),
      TsPlaceholder(annot, "[Ink/drawing annotation at]"), Line("end_example", <<>>, "", 0)>>
    \o TsComment(annot) \o TsFormatTags(annot)

\* `${link}\n${text.trim()}\n` with text = annotationText || annotationComment || ""
TsFormatGeneric(annot) ==
    LET text == IF Truthy(annot.annotationText) THEN annot.annotationText
                ELSE IF Truthy(annot.annotationComment) THEN annot.annotationComment
                ELSE ""
    IN  <<TsLink(annot), Line("text", <<>>, Trim(text), 0)>>

\* AnnotationFormatter.format: the switch on annotationType.
AnnotationFormatterFormat(annot) ==
    LET type == annot.annotationType
    IN  IF type \in {"highlight", "underline"} THEN TsFormatHighlight(annot)
        ELSE IF type = "note" THEN TsFormatNote(annot)
        ELSE IF type = "image" THEN TsFormatImage(annot)
        ELSE IF type = "ink" THEN TsFormatInk(annot)
        ELSE TsFormatGeneric(annot)

----------------------------------------------------------------------------
(* DocumentAssembler: zotero-format-as-org-mode / zotero-format-as-markdown *)

\* The main header with item info.
DocumentHeader(syn, key) ==
    IF syn = "org"
    THEN <<Line("heading", <<"*">>, "item-title", 0), Line("properties", <<>>, "", 0),
           Line("item_type", <<>>, "", 0), Line("zotero_key", <<>>, "", 0)>>
         \o (IF key # NoCitationKey THEN <<Line("custom_id", <<>>, key, 0)>> ELSE <<>>)
         \o <<Line("end", <<>>, "", 0), Blank>>
    ELSE <<Line("heading", <<"#">>, "item-title", 0), Blank,
           Line("item_type", <<>>, "", 0), Line("zotero_key", <<>>, "", 0)>>
         \o (IF key # NoCitationKey THEN <<Line("citation_key", <<>>, key, 0)>> ELSE <<>>)
         \o <<Blank>>

ChapterHeadingBaseSingle(syn, multi) == <<HeadingChar(syn)>>

\* chapter-heading-base
ChapterHeadingBase(syn, multi) ==
    IF multi THEN <<HeadingChar(syn), HeadingChar(syn)>> ELSE <<HeadingChar(syn)>>

\* (format "%s%s %s" chapter-heading-base (make-string level ?*) title)
ChapterHeading(syn, multi, level, title) ==
    Line("heading", ChapterHeadingBase(syn, multi) \o MakeString(level, HeadingChar(syn)),
         title, 0)

\* (equal (gethash level current-chapters) title)
AlreadyOpenAtAnyTitle(h, level, title) == level \in DOMAIN h

AlreadyOpen(h, level, title) == level \in DOMAIN h /\ h[level] = title

\* puthash, then the maphash that removes the deeper levels.
OpenHeadingKeepDeeper(h, level, title) == PutHash(h, level, title)

OpenHeading(h, level, title) == ClearDeeper(PutHash(h, level, title), level)

\* current-chapters as bound for an attachment: (make-hash-table :test 'eql).
NewChapterTableReused(old) == old

NewChapterTable(old) == EmptyHash

MultiAttachmentAtLeastOne == n_attachments >= 1

\* multi-attachment
MultiAttachment == n_attachments > 1

----------------------------------------------------------------------------
(* Inputs of the assembler *)

\* An item has no attachment, one, or several (multi-attachment).
AttachmentCounts == {0, 1, 2}

MaxAnnotations == 2

AsmTitles == {"A", "B"}
AsmEntryLabels == {S1, S2}
AsmLevels == {1, 2}
AsmEntries ==
    {ChapterEntry(t, l, v) : t \in AsmTitles, l \in AsmEntryLabels, v \in AsmLevels}

\* The chapter maps zotero--get-chapter-map-for-attachment may return, in ascending
\* order of position; <<>> is nil.
AsmMaps ==
    {m \in UNION {[1..n -> AsmEntries] : n \in 0..2} :
        \A i \in 1..(Len(m) - 1) : StringToNumber(m[i].lbl) <= StringToNumber(m[i + 1].lbl)}

Idx01 == <<"0", "0", "0", "0", "1", "|", "1">>

\* Page label, sort index and text of the annotations an attachment may hold: two
\* pages in label order, a page 1 that its sort index places after them, and an
\* EPUB highlight (spine index as page label) without text.
AsmAnnotationKinds ==
    {<<S1, Nil, "T">>, <<S2, Nil, "T">>, <<S1, Idx05, "T">>, <<S00055, Idx01, "">>}

\* The annotation lists an attachment may hold, keyed by position.
AsmAnnotationsOfLen(n) ==
    {[i \in 1..n |-> Annotation(i, f[i][1], f[i][2], "highlight", f[i][3])] :
        f \in [1..n -> AsmAnnotationKinds]}

\* The calls made: the org assembler without citation key, the markdown assembler
\* with one.
AsmCalls == {<<"org", NoCitationKey>>, <<"md", "K">>}

\* (cdr (assq 'error annotations-data)); NoError is nil.
NoError == "<nil>"

ErrorMsgOnlyWhenAlone(data) ==
    IF DOMAIN data = {"error"} THEN data["error"] ELSE NoError

ErrorMsg(data) == IF "error" \in DOMAIN data THEN data["error"] ELSE NoError

\* (length (cdr (assq 'attachments annotations-data))): the model keeps the length.
AttachmentCount(data) == IF "attachments" \in DOMAIN data THEN data["attachments"] ELSE 0

\* The record zotero-get-all-annotations-for-item returns when the item is not found.
ItemNotFound == [error |-> "Item not found"]

\* The record it returns for an item with n file attachments.
ItemRecord(n) ==
    [item_id |-> "item-id", item_title |-> "item-title", item_type |-> "item-type",
     attachments |-> n]

\* Records handed to the assemblers directly: an error marker next to the fields
\* of an item, and an error entry that is nil.
DirectRecords ==
    {[error |-> "E", item_id |-> "item-id", item_title |-> "item-title",
      item_type |-> "item-type", attachments |-> 1],
     [error |-> NoError, item_id |-> "item-id", item_title |-> "item-title",
      item_type |-> "item-type", attachments |-> 1]}

Init ==
    /\ \/ pc = "fetch" /\ annotations_data = <<>>
       \/ pc = "start" /\ annotations_data \in DirectRecords
    /\ \E call \in AsmCalls : syntax = call[1] /\ citation_key = call[2]
    /\ annotations = <<>> /\ sorted_anns = <<>> /\ chapter_map = <<>>
    /\ page_label = <<>> /\ sort_index = <<>> /\ effective_label = <<>>
    /\ chapters = <<>> /\ current_chapters = <<>> /\ content = <<>>
    /\ n_attachments = 0 /\ att_index = 0 /\ ann_index = 0 /\ ch_index = 0
    /\ att_mark = 0 /\ ann_mark = 0 /\ prev_chapters = <<>>
    /\ budget = MaxAnnotations
    /\ calls = <<>> /\ heap = <<>>
    /\ HelpersAtRest

\* zotero-get-all-annotations-for-item: the item is found, with its attachments,
\* or it is not.
GetAllAnnotationsForItem ==
    /\ pc = "fetch"
    /\ \/ annotations_data' = ItemNotFound
       \/ \E n \in AttachmentCounts : annotations_data' = ItemRecord(n)
    /\ pc' = "start"
    /\ UNCHANGED <<syntax, citation_key, annotations, sorted_anns, chapter_map,
                   page_label, sort_index, effective_label, chapters, current_chapters,
                   content, n_attachments, att_index, ann_index, ch_index, att_mark,
                   ann_mark, prev_chapters, budget, calls, heap, helperVars>>

\* The record carries an error marker: one comment line, nothing else.
RenderError ==
    /\ pc = "start"
    /\ ErrorMsg(annotations_data) # NoError
    /\ content' = <<Line("error", <<>>, ErrorMsg(annotations_data), 0)>>
    /\ pc' = "done"
    /\ UNCHANGED <<syntax, citation_key, annotations, sorted_anns, chapter_map,
                   page_label, sort_index, effective_label, chapters, current_chapters,
                   n_attachments, att_index, ann_index, ch_index, att_mark, ann_mark,
                   prev_chapters, budget,
                   annotations_data, calls, heap, helperVars>>

\* No error marker: the header is pushed and the attachments are counted.
BeginDocument ==
    /\ pc = "start"
    /\ ErrorMsg(annotations_data) = NoError
    /\ n_attachments' = AttachmentCount(annotations_data)
    /\ content' = DocumentHeader(syntax, citation_key)
    /\ pc' = "attachment"
    /\ UNCHANGED <<syntax, citation_key, annotations, sorted_anns, chapter_map,
                   page_label, sort_index, effective_label, chapters, current_chapters,
                   att_index, ann_index, ch_index, att_mark, ann_mark, prev_chapters,
                   budget, annotations_data, calls, heap, helperVars>>

\* The attachment header, pushed for a multi-attachment item only.
AttachmentHeaderLines(syn, multi) ==
    IF multi
    THEN <<Line("heading", <<HeadingChar(syn), HeadingChar(syn)>>, "attachment-title", 0),
           Blank>>
    ELSE <<>>

AttachmentHeader == AttachmentHeaderLines(syntax, MultiAttachment)

\* An attachment without annotations: the notice.
BeginEmptyAttachment ==
    /\ pc = "attachment"
    /\ att_index < n_attachments
    /\ att_index' = att_index + 1
    /\ annotations' = <<>>
    /\ content' = content \o AttachmentHeader \o <<Line("notice", <<>>, "", 0), Blank>>
    /\ att_mark' = Len(content \o AttachmentHeader)
    /\ UNCHANGED <<pc, syntax, citation_key, sorted_anns, chapter_map, page_label,
                   sort_index, effective_label, chapters, current_chapters,
                   n_attachments, ann_index, ch_index, ann_mark, prev_chapters, budget,
                   annotations_data, calls, heap, helperVars>>

\* An attachment with annotations: they are sorted, the chapter map is fetched and
\* a new heading table is made.
BeginAttachment ==
    /\ pc = "attachment"
    /\ att_index < n_attachments
    /\ \E n \in 1..budget : \E anns \in AsmAnnotationsOfLen(n) : \E map \in AsmMaps :
          /\ annotations' = anns
          /\ sorted_anns' = ZoteroSortAnnotations(anns)
          /\ chapter_map' = map
          /\ budget' = budget - n
    /\ att_index' = att_index + 1
    /\ content' = content \o AttachmentHeader
    /\ att_mark' = Len(content')
    /\ current_chapters' = NewChapterTable(current_chapters)
    /\ ann_index' = 0
    /\ prev_chapters' = <<>>
    /\ pc' = "annotation"
    /\ UNCHANGED <<syntax, citation_key, page_label, sort_index, effective_label,
                   chapters, n_attachments, ch_index, ann_mark, annotations_data, calls, heap, helperVars>>

\* The next annotation of sorted-anns: with a chapter map, its chapters are resolved.
BeginAnnotation ==
    /\ pc = "annotation"
    /\ ann_index < Len(sorted_anns)
    /\ LET annotation == sorted_anns[ann_index + 1]
           found == IF chapter_map # <<>>
                    THEN GetChaptersForPage(chapter_map, EffectiveLabel(annotation))
                    ELSE <<>>
       IN  /\ page_label' = OrDefault(annotation.annotationPageLabel, <<>>)
           /\ sort_index' = OrDefault(annotation.annotationSortIndex, <<>>)
           /\ effective_label' = EffectiveLabel(annotation)
           /\ chapters' = found
           /\ pc' = IF found = <<>> THEN "block" ELSE "chapter"
    /\ ann_index' = ann_index + 1
    /\ ch_index' = 0
    /\ ann_mark' = Len(content)
    /\ prev_chapters' = IF ann_index = 0 THEN <<>> ELSE chapters
    /\ UNCHANGED <<syntax, citation_key, annotations, sorted_anns, chapter_map,
                   current_chapters, content, n_attachments, att_index, att_mark, budget,
                   annotations_data, calls, heap, helperVars>>

AfterChapter == IF ch_index + 1 = Len(chapters) THEN "block" ELSE "chapter"

\* The next chapter of the chain is not the title recorded at its level: it is
\* recorded, deeper levels are cleared and its heading is pushed.
EmitHeading ==
    /\ pc = "chapter"
    /\ LET ch == chapters[ch_index + 1]
       IN  /\ ~AlreadyOpen(current_chapters, ch.level, ch.title)
           /\ current_chapters' = OpenHeading(current_chapters, ch.level, ch.title)
           /\ content' = content
                  \o <<ChapterHeading(syntax, MultiAttachment, ch.level, ch.title), Blank>>
    /\ ch_index' = ch_index + 1
    /\ pc' = AfterChapter
    /\ UNCHANGED <<syntax, citation_key, annotations, sorted_anns, chapter_map,
                   page_label, sort_index, effective_label, chapters, n_attachments,
                   att_index, ann_index, att_mark, ann_mark, prev_chapters, budget,
                   annotations_data, calls, heap, helperVars>>

\* The next chapter of the chain is the title recorded at its level: nothing is done.
SkipHeading ==
    /\ pc = "chapter"
    /\ LET ch == chapters[ch_index + 1]
       IN  AlreadyOpen(current_chapters, ch.level, ch.title)
    /\ ch_index' = ch_index + 1
    /\ pc' = AfterChapter
    /\ UNCHANGED <<syntax, citation_key, annotations, sorted_anns, chapter_map,
                   page_label, sort_index, effective_label, chapters, current_chapters,
                   content, n_attachments, att_index, ann_index, att_mark, ann_mark,
                   prev_chapters, budget,
                   annotations_data, calls, heap, helperVars>>

\* A mutation of PushBlock: the blank line is pushed whether or not the block has
\* lines.
PushBlockAlwaysSeparator(lines, ann_lines) == lines \o ann_lines \o <<Blank>>

\* (when ann-lines (dolist (line ann-lines) (push line org-content))
\*   (push "" org-content)): nil pushes nothing, not even the blank line.
PushBlock(lines, ann_lines) ==
    IF ann_lines # <<>> THEN lines \o ann_lines \o <<Blank>> ELSE lines

\* The annotation's block, followed by a blank line when it has lines.
RenderBlock ==
    /\ pc = "block"
    /\ LET ann_lines == FormatSingleAnnotation(syntax, sorted_anns[ann_index], citation_key)
       IN  content' = PushBlock(content, ann_lines)
    /\ pc' = "annotation"
    /\ UNCHANGED <<syntax, citation_key, annotations, sorted_anns, chapter_map,
                   page_label, sort_index, effective_label, chapters, current_chapters,
                   n_attachments, att_index, ann_index, ch_index, att_mark, ann_mark,
                   prev_chapters, budget,
                   annotations_data, calls, heap, helperVars>>

\* The annotations of the attachment are exhausted: the bindings of its let* go
\* out of scope.  The heading table is left as it is until the next attachment
\* binds current-chapters again.
EndAttachment ==
    /\ pc = "annotation"
    /\ ann_index = Len(sorted_anns)
    /\ pc' = "attachment"
    /\ annotations' = <<>> /\ sorted_anns' = <<>> /\ chapter_map' = <<>>
    /\ page_label' = <<>> /\ sort_index' = <<>> /\ effective_label' = <<>>
    /\ chapters' = <<>> /\ prev_chapters' = <<>>
    /\ ann_index' = 0 /\ ch_index' = 0 /\ ann_mark' = 0
    /\ UNCHANGED <<syntax, citation_key, current_chapters, content, n_attachments,
                   att_index, att_mark, budget,
                   annotations_data, calls, heap, helperVars>>

\* The attachments are exhausted: the lines are joined and returned.
EndDocument ==
    /\ pc = "attachment"
    /\ att_index = n_attachments
    /\ pc' = "done"
    /\ UNCHANGED <<syntax, citation_key, annotations, sorted_anns, chapter_map,
                   page_label, sort_index, effective_label, chapters, current_chapters,
                   content, n_attachments, att_index, ann_index, ch_index, att_mark,
                   ann_mark, prev_chapters, budget,
                   annotations_data, calls, heap, helperVars>>

Next ==
    \/ GetAllAnnotationsForItem
    \/ RenderError
    \/ BeginDocument
    \/ BeginEmptyAttachment
    \/ BeginAttachment
    \/ BeginAnnotation
    \/ EmitHeading
    \/ SkipHeading
    \/ RenderBlock
    \/ EndAttachment
    \/ EndDocument

Spec == Init /\ [][Next]_vars

----------------------------------------------------------------------------
(* Claims about heading emission *)

Recorded(h, ch) == ch.level \in DOMAIN h /\ h[ch.level] = ch.title

\* What one visit of a chain element must do to the heading table and the output.
C1_VisitStep ==
    pc = "chapter" =>
        LET ch == chapters[ch_index + 1]
            n  == Len(content)
        IN  /\ ch_index' = ch_index + 1
            /\ IF Recorded(current_chapters, ch)
               THEN content' = content /\ current_chapters' = current_chapters
               ELSE /\ Len(content') = n + 2
                    /\ SubSeq(content', 1, n) = content
                    /\ content'[n + 1].kind = "heading" /\ content'[n + 1].text = ch.title
                    /\ content'[n + 2] = Blank
                    /\ DOMAIN current_chapters' =
                          {k \in DOMAIN current_chapters : k < ch.level} \cup {ch.level}
                    /\ current_chapters'[ch.level] = ch.title
                    /\ \A k \in DOMAIN current_chapters :
                          k < ch.level => current_chapters'[k] = current_chapters[k]

\* An annotation whose chain is that of the annotation before it emits nothing.
C1_SameChainOnce ==
    (pc = "block" /\ ann_index >= 2 /\ chapters = prev_chapters) => Len(content) = ann_mark

\* C1: for every annotation in sorted order and every (title, level) of its chain,
\* shallowest first, a chapter heading is emitted exactly when the heading table
\* does not hold that title at that level; emission records the title and removes
\* every deeper entry; two consecutive annotations with the same chain emit its
\* headings once.
C1_HeadingEmission == [][C1_VisitStep]_vars /\ []C1_SameChainOnce

\* The second annotation resolved to the two-level chain of the first, whose
\* headings are in the output, and has had its chain visited.
C1_Witness ==
    /\ pc = "block" /\ ann_index = 2
    /\ Len(chapters) = 2 /\ chapters = prev_chapters
    /\ \E i, j \in (att_mark + 1)..ann_mark :
          /\ i < j
          /\ content[i].kind = "heading" /\ content[i].text = chapters[1].title
          /\ content[j].kind = "heading" /\ content[j].text = chapters[2].title

ChainLevels == {chapters[k].level : k \in 1..Len(chapters)}

\* C2 as stated: after an annotation with a non-empty chain the heading table is
\* exactly that chain.
C2_StackIsChain ==
    (pc = "block" /\ chapters # <<>>) =>
        /\ DOMAIN current_chapters = ChainLevels
        /\ \A k \in 1..Len(chapters) : current_chapters[chapters[k].level] = chapters[k].title

\* A heading was emitted for the shallowest element of this annotation's chain
\* (headings go out shallowest first, so it is the first line after ann_mark).
ShallowestEmitted ==
    /\ Len(content) > ann_mark
    /\ content[ann_mark + 1].kind = "heading"
    /\ Len(content[ann_mark + 1].marks) =
          (IF MultiAttachment THEN 2 ELSE 1) + chapters[1].level

\* C2 (amended): after an annotation with a non-empty chain the heading table
\* holds the chain's title at every level of the chain; levels the chain lacks may
\* keep titles of earlier annotations, except that from the chain's shallowest
\* level down the table is exactly the chain when that level's heading was emitted
\* for this annotation.
C2_ChainWithinStack ==
    (pc = "block" /\ chapters # <<>>) =>
        /\ \A k \in 1..Len(chapters) : Recorded(current_chapters, chapters[k])
        /\ ShallowestEmitted =>
              {l \in DOMAIN current_chapters : l >= chapters[1].level} = ChainLevels

\* An annotation's non-empty chain has been visited and the heading table still
\* holds a title at a level the chain lacks.
C2_Witness ==
    /\ pc = "block" /\ chapters # <<>>
    /\ \E l \in DOMAIN current_chapters : l \notin ChainLevels /\ l > chapters[1].level

----------------------------------------------------------------------------
(* Claims about the heading table's lifetime *)

\* The (title, level) pairs of the headings a chain emits against table h, and the
\* table afterwards, worked out from the chain alone.
RECURSIVE ChainEmits(_, _)
ChainEmits(chain, h) ==
    IF chain = <<>> THEN [out |-> <<>>, table |-> h]
    ELSE LET ch == Head(chain)
         IN  IF Recorded(h, ch)
             THEN ChainEmits(Tail(chain), h)
             ELSE LET h2   == [l \in {k \in DOMAIN h : k < ch.level} \cup {ch.level} |->
                                  IF l = ch.level THEN ch.title ELSE h[l]]
                      rest == ChainEmits(Tail(chain), h2)
                  IN  [out |-> <<ch>> \o rest.out, table |-> rest.table]

\* The headings an attachment's annotations emit, starting from table h.
RECURSIVE AttachmentEmits(_, _, _)
AttachmentEmits(anns, map, h) ==
    IF anns = <<>> \/ map = <<>> THEN <<>>
    ELSE LET e == ChainEmits(GetChaptersForPage(map, EffectiveLabel(Head(anns))), h)
         IN  e.out \o AttachmentEmits(Tail(anns), map, e.table)

\* The (title, level) pairs of the headings among the given lines.
RECURSIVE HeadingsIn(_, _)
HeadingsIn(lines, base) ==
    IF lines = <<>> THEN <<>>
    ELSE (IF Head(lines).kind = "heading"
          THEN <<[title |-> Head(lines).text, level |-> Len(Head(lines).marks) - base]>>
          ELSE <<>>) \o HeadingsIn(Tail(lines), base)

\* C10: the heading table is made empty for each attachment: the chapter headings
\* emitted for an attachment are those its own chapter map and annotations give
\* from an empty table, whatever was recorded for an earlier attachment.
C10_FreshTablePerAttachment ==
    pc = "annotation" =>
        HeadingsIn(SubSeq(content, att_mark + 1, Len(content)),
                   IF MultiAttachment THEN 2 ELSE 1)
            = AttachmentEmits(SubSeq(sorted_anns, 1, ann_index), chapter_map, <<>>)

\* In the second attachment a chapter heading has been emitted that the first
\* attachment had emitted too, with the same title at the same depth.
C10_Witness ==
    /\ pc = "annotation" /\ att_index = 2
    /\ \E i \in 1..att_mark : \E j \in (att_mark + 1)..Len(content) :
          /\ content[i].kind = "heading" /\ content[i].text \in AsmTitles
          /\ content[j] = content[i]

----------------------------------------------------------------------------
(* Claims about the error marker *)

CarriesErrorMarker ==
    "error" \in DOMAIN annotations_data /\ annotations_data["error"] # "<nil>"

\* A record with an error marker is never rendered beyond its error line.
C12_ErrorLineOnly ==
    CarriesErrorMarker =>
        \/ pc = "start" /\ content = <<>>
        \/ /\ pc = "done"
           /\ Len(content) = 1
           /\ content[1].kind = "error" /\ content[1].text = annotations_data["error"]

\* The record a fetch yields has no error marker, or nothing but the error marker.
C12_FetchStep ==
    (pc = "fetch" /\ pc' = "start") =>
        \/ "error" \notin DOMAIN annotations_data' /\ "attachments" \in DOMAIN annotations_data'
        \/ DOMAIN annotations_data' = {"error"}

\* C12: when the aggregate record carries an error marker, both assemblers output
\* one error comment line and nothing else, whatever other fields the record has;
\* zotero-get-all-annotations-for-item yields a record holding only the error
\* marker when the item is not found.
C12_ErrorMarker == []C12_ErrorLineOnly /\ [][C12_FetchStep]_vars

\* A record with an error marker and an attachment has been rendered.
C12_Witness ==
    /\ pc = "done"
    /\ CarriesErrorMarker /\ "attachments" \in DOMAIN annotations_data
    /\ Len(content) = 1 /\ content[1].kind = "error"

\* A not-found record has been rendered.
C12_WitnessNotFound ==
    /\ pc = "done" /\ annotations_data = ItemNotFound /\ content[1].kind = "error"

----------------------------------------------------------------------------
(* Claims about attachment and chapter heading depth *)

IsAttachmentHeading(line) == line.kind = "heading" /\ line.text = "attachment-title"

IsChapterHeading(line) == line.kind = "heading" /\ line.text \in AsmTitles

AttachmentHeadingPositions == {i \in 1..Len(content) : IsAttachmentHeading(content[i])}

\* C13: an attachment sub-heading is emitted for an attachment if and only if the
\* item has more than one attachment: with several, each attachment begun has its
\* heading right before its lines; with exactly one, no attachment heading is in
\* the output and its annotations or notice follow the item header directly.
C13_AttachmentHeadingIffMulti ==
    pc \notin {"fetch", "start"} /\ ~CarriesErrorMarker =>
        /\ n_attachments = annotations_data["attachments"]
        /\ IF n_attachments > 1
           THEN /\ Cardinality(AttachmentHeadingPositions) = att_index
                /\ att_index > 0 => IsAttachmentHeading(content[att_mark - 1])
           ELSE /\ AttachmentHeadingPositions = {}
                /\ att_index = 1 => att_mark = Len(DocumentHeader(syntax, citation_key))

\* Both attachments of an item have been rendered, each under its heading.
C13_Witness ==
    /\ pc = "done" /\ n_attachments = 2
    /\ Cardinality(AttachmentHeadingPositions) = 2

\* The only attachment of an item has been rendered without a heading.
C13_WitnessSingle ==
    /\ pc = "done" /\ n_attachments = 1 /\ att_index = 1
    /\ Len(content) > att_mark /\ AttachmentHeadingPositions = {}

BaseDepth == IF n_attachments > 1 THEN 2 ELSE 1

\* The heading pushed for a chain element of level L has baseDepth + L markers.
C14_EmitStep ==
    (pc = "chapter" /\ content' # content) =>
        LET ch   == chapters[ch_index + 1]
            line == content'[Len(content') - 1]
        IN  /\ line.kind = "heading" /\ line.text = ch.title
            /\ Len(line.marks) = BaseDepth + ch.level
            /\ \A k \in 1..Len(line.marks) : line.marks[k] = HeadingChar(syntax)

\* Chapter headings are deeper than the item heading and the attachment headings.
C14_Nesting ==
    \A i \in 1..Len(content) :
        IsChapterHeading(content[i]) =>
            /\ Len(content[i].marks) > Len(content[1].marks)
            /\ \A j \in AttachmentHeadingPositions :
                  Len(content[i].marks) > Len(content[j].marks)

\* C14: every chapter heading line emitted for a chapter of level L has exactly
\* baseDepth + L heading markers ('*' in org, '#' in markdown), baseDepth being 1
\* for a single-attachment item and 2 for a multi-attachment item, so it is
\* strictly deeper than the item heading and than the attachment heading.
C14_ChapterHeadingDepth == [][C14_EmitStep]_vars /\ []C14_Nesting

\* A level-2 chapter heading of a multi-attachment item, four markers deep.
C14_Witness ==
    /\ n_attachments = 2
    /\ \E i \in 1..Len(content) :
          IsChapterHeading(content[i]) /\ Len(content[i].marks) = 4

----------------------------------------------------------------------------
(* Inputs of the block renderers *)

MaxTags == 2

RenderTypes == {"highlight", "underline", "note", "image", "ink", "text", NoText}
RenderTexts == {NoText, "", " ", "T"}
RenderComments == {NoText, "", "C"}
RenderPageLabels == {Nil, <<>>, S5}

TagA == <<"a">>
TagSpaces == <<"a", " ", "\t", "b">>
TagColon == <<"a", ":", "b">>

\* A tags entry is a tag name, or Nil for an entry without a 'tag field.
RenderTagEntries == {TagA, TagSpaces, TagColon, Nil}
RenderTagLists == UNION {[1..n -> RenderTagEntries] : n \in 0..MaxTags}

RenderCalls == {"org", "md"} \X {NoCitationKey, "K"}

AnnotationWith(key, label, idx, type, text, comment, tags) ==
    [Annotation(key, label, idx, type, text) EXCEPT
        !.annotationComment = comment, !.tags = tags]

\* The variables the renderers leave alone.
renderRest == <<sorted_anns, chapter_map, page_label, sort_index, effective_label, chapters,
                current_chapters, n_attachments, att_index, ann_index, ch_index, att_mark,
                ann_mark, prev_chapters, budget, annotations_data, calls, heap, helperVars>>

InitRender ==
    /\ pc = "render_input"
    /\ \E call \in RenderCalls : syntax = call[1] /\ citation_key = call[2]
    /\ \E type \in RenderTypes, text \in RenderTexts, comment \in RenderComments,
          label \in RenderPageLabels, tags \in RenderTagLists :
          annotations = <<AnnotationWith(1, label, Nil, type, text, comment, tags)>>
    /\ content = <<>>
    /\ sorted_anns = <<>> /\ chapter_map = <<>> /\ chapters = <<>>
    /\ page_label = <<>> /\ sort_index = <<>> /\ effective_label = <<>>
    /\ current_chapters = <<>>
    /\ n_attachments = 0 /\ att_index = 0 /\ ann_index = 0 /\ ch_index = 0
    /\ att_mark = 0 /\ ann_mark = 0 /\ prev_chapters = <<>> /\ budget = 0
    /\ annotations_data = <<>>
    /\ calls = <<>> /\ heap = <<>>
    /\ HelpersAtRest

\* A call of zotero--format-single-annotation-org or -md, as the assemblers make it.
FormatSingleAnnotationCall ==
    /\ pc = "render_input"
    /\ content' = FormatSingleAnnotation(syntax, annotations[1], citation_key)
    /\ pc' = "rendered"
    /\ UNCHANGED <<syntax, citation_key, annotations, renderRest>>

\* A ZoteroAnnotation: string fields where the interface requires them, tags that
\* all have a name.
IsZoteroAnnotation(annot) ==
    /\ annot.annotationPageLabel # Nil
    /\ annot.annotationType # NoText
    /\ \A i \in 1..Len(annot.tags) : annot.tags[i] # Nil

\* A call of AnnotationFormatter.format, which has neither a markdown form nor a
\* citation key.
AnnotationFormatterFormatCall ==
    /\ pc = "render_input"
    /\ syntax = "org" /\ citation_key = NoCitationKey
    /\ IsZoteroAnnotation(annotations[1])
    /\ content' = AnnotationFormatterFormat(annotations[1])
    /\ pc' = "rendered_ts"
    /\ UNCHANGED <<syntax, citation_key, annotations, renderRest>>

NextRender ==
    \/ FormatSingleAnnotationCall
    \/ AnnotationFormatterFormatCall

SpecRender == InitRender /\ [][NextRender]_vars

----------------------------------------------------------------------------
(* Claims about the block renderers *)

Ann == annotations[1]

Rendered == pc \in {"rendered", "rendered_ts"}

IsHighlight == Ann.annotationType \in {"highlight", "underline"}

Present(str) == str # "<nil>" /\ str # ""

NamedTags == SelectSeq(Ann.tags, LAMBDA t : t # Nil)

Positions(kinds) == {i \in 1..Len(content) : content[i].kind \in kinds}

\* C15 as stated: a highlight or underline annotation whose text is empty or
\* absent produces zero rendered lines, whatever its comment, tags and citation key.
C15_EmptyHighlightNoLines ==
    (Rendered /\ IsHighlight /\ ~Present(Ann.annotationText)) => content = <<>>

\* C16 as stated: no tag token of an output tag line holds whitespace or a colon,
\* in any renderer that emits tags.
C16_TagTokensClean ==
    Rendered =>
        \A i \in Positions({"tags"}) :
            \A k \in 1..Len(content[i].tokens) :
                \A c \in 1..Len(content[i].tokens[k]) :
                    content[i].tokens[k][c] \notin {" ", "\t", "\n", ":"}

\* The comment block of a note: the org comment block or the markdown emphasis.
CommentBlockAt2(comment) ==
    \/ /\ Len(content) >= 4
       /\ content[2].kind = "begin_comment"
       /\ content[3].kind = "comment" /\ content[3].text = comment
       /\ content[4].kind = "end_comment"
    \/ /\ Len(content) >= 3
       /\ content[2] = Blank
       /\ content[3].kind = "emphasis" /\ content[3].text = comment

NoCommentBlock == Positions({"begin_comment", "comment", "end_comment", "emphasis"}) = {}

\* The tag line, if any, is the last line, after the link.
TagLineLast ==
    /\ Positions({"tags"}) \subseteq {Len(content)} \ {1}
    /\ NamedTags # <<>> => Positions({"tags"}) # {}

\* C17 as stated: the single-annotation renderer the assemblers use always emits
\* the comment block of a note, the per-item renderer skips it for an empty comment.
C17_AsStated ==
    (Rendered /\ Ann.annotationType = "note") =>
        /\ content[1].kind = "link"
        /\ IF pc = "rendered"
           THEN CommentBlockAt2(IF Present(Ann.annotationComment)
                                THEN Ann.annotationComment ELSE "")
           ELSE Present(Ann.annotationComment) \/ NoCommentBlock
        /\ TagLineLast

\* C17 (amended): a note annotation always renders its link line first; its
\* comment block is skipped entirely when the comment is empty in the
\* single-annotation renderer the assemblers use, and is always emitted, possibly
\* empty, by AnnotationFormatter.formatNote; the tag line, if any, comes after.
C17_NoteRendering ==
    (Rendered /\ Ann.annotationType = "note") =>
        /\ content[1].kind = "link"
        /\ IF pc = "rendered"
           THEN IF Present(Ann.annotationComment)
                THEN CommentBlockAt2(Ann.annotationComment)
                ELSE NoCommentBlock
           ELSE CommentBlockAt2(IF Present(Ann.annotationComment)
                                THEN Ann.annotationComment ELSE "")
        /\ TagLineLast

\* The single-annotation renderer has rendered a tagged note with an empty comment.
C17_Witness ==
    /\ pc = "rendered" /\ Ann.annotationType = "note" /\ Ann.annotationComment = ""
    /\ Len(content) = 2 /\ content[1].kind = "link" /\ content[2].kind = "tags"

\* AnnotationFormatter has rendered a note with an empty comment: an empty block.
C17_WitnessTs ==
    /\ pc = "rendered_ts" /\ Ann.annotationType = "note" /\ Ann.annotationComment = ""
    /\ Len(content) = 4 /\ content[3].kind = "comment" /\ content[3].text = ""

\* C18 as stated: every image and every ink annotation renders a link line, a
\* placeholder line naming the kind and the page, the comment if it is non-empty,
\* the tag line if tags are present, in this order.
C18_ImageInkRendering ==
    (Rendered /\ Ann.annotationType \in {"image", "ink"}) =>
        /\ content # <<>> /\ content[1].kind = "link"
        /\ \E i \in Positions({"placeholder"}) :
              /\ i > 1
              /\ content[i].page = Ann.annotationPageLabel
              /\ Present(Ann.annotationComment) /\ Ann.annotationComment # " " =>
                    \E j \in Positions({"comment"}) :
                        j > i /\ content[j].text = Ann.annotationComment
        /\ TagLineLast

\* C19 as stated: an annotation of any other type renders the link line followed
\* by the fallback text, the first non-empty of text and comment.
C19_UnknownTypeFallback ==
    (Rendered /\ Ann.annotationType \notin {"highlight", "underline", "note", "image", "ink"}) =>
        LET fallback == IF Present(Ann.annotationText) THEN Ann.annotationText
                        ELSE IF Present(Ann.annotationComment) THEN Ann.annotationComment
                        ELSE ""
        IN  /\ Len(content) >= 2
            /\ content[1].kind = "link"
            /\ content[2].kind = "text"
            /\ content[2].text \in {fallback, IF fallback = " " THEN "" ELSE fallback}

\* C20: with a citation key, every rendered highlight/underline block contains the
\* marker [cite:@KEY, p.P], P being the annotation's page label, or "?" when the
\* page label is empty; without a citation key, and for every other annotation,
\* no citation marker is emitted.
C20_CitationMarker ==
    Rendered =>
        LET cites == Positions({"cite"})
            label == IF Ann.annotationPageLabel \in {Nil, <<>>}
                     THEN <<"?">> ELSE Ann.annotationPageLabel
        IN  IF citation_key # "<nil>" /\ IsHighlight /\ Positions({"text", "quote"}) # {}
            THEN /\ Cardinality(cites) = 1
                 /\ \A i \in cites :
                       /\ content[i].text = citation_key /\ content[i].page = label
                       /\ \E j \in Positions({"text", "quote"}) : j < i
            ELSE cites = {}

\* A highlight without page label has been rendered with a citation key: "p.?".
C20_Witness ==
    /\ pc = "rendered" /\ citation_key = "K" /\ IsHighlight
    /\ Ann.annotationPageLabel = <<>>
    /\ \E i \in Positions({"cite"}) : content[i].page = <<"?">> /\ content[i].text = "K"

----------------------------------------------------------------------------
(* Concurrent renders: several calls of an assembler, each with its own locals, *)
(* steps of different calls interleaved.  What the calls could share is the    *)
(* store of hash tables: current-chapters is an object made by make-hash-table. *)

MaxCalls == 2

CallIds == 1..MaxCalls

NewTableIdShared(hp) == 1

\* make-hash-table returns a table that did not exist before.
NewTableId(hp) == Len(hp) + 1

\* The store after table id has been set to table.
Store(hp, id, table) ==
    IF id \in DOMAIN hp THEN [hp EXCEPT ![id] = table] ELSE Append(hp, table)

Attachment(anns, map) == [annotations |-> anns, chapter_map |-> map]

MapA == <<ChapterEntry("A", S1, 1)>>
MapAB == <<ChapterEntry("A", S1, 1), ChapterEntry("B", S2, 2)>>

Highlight(key, label) == Annotation(key, label, Nil, "highlight", "T")

\* The items rendered: two annotations of one chapter; two annotations in two
\* chapters; two attachments with the same chapter; an attachment without
\* annotations.
ItemSameChapter == <<Attachment(<<Highlight(1, S1), Highlight(2, S1)>>, MapA)>>
ItemTwoChapters == <<Attachment(<<Highlight(1, S2), Highlight(2, S1)>>, MapAB)>>
ItemTwoAttachments ==
    <<Attachment(<<Highlight(1, S1)>>, MapA), Attachment(<<Highlight(1, S1)>>, MapA)>>
ItemNoAnnotations == <<Attachment(<<>>, <<>>)>>

\* The calls a host makes at once: each an assembler, a citation key and an item.
ConcurrentCalls ==
    {<<"org", NoCitationKey, ItemSameChapter>>,
     <<"md", "K", ItemSameChapter>>,
     <<"org", NoCitationKey, ItemTwoChapters>>,
     <<"md", "K", ItemTwoAttachments>>,
     <<"org", NoCitationKey, ItemNoAnnotations>>}

\* The locals of a call that has not begun.
NewCall(call) ==
    [syntax |-> call[1], citation_key |-> call[2], attachments |-> call[3],
     pc |-> "start", att_index |-> 0, ann_index |-> 0, ch_index |-> 0,
     sorted_anns |-> <<>>, chapter_map |-> <<>>, chapters |-> <<>>,
     current_chapters |-> 0, content |-> <<>>]

InitConcurrent ==
    /\ calls \in [CallIds -> {NewCall(call) : call \in ConcurrentCalls}]
    /\ heap = <<>>
    /\ HelpersAtRest
    /\ pc = "concurrent"
    /\ annotations = <<>> /\ sorted_anns = <<>> /\ chapter_map = <<>> /\ chapters = <<>>
    /\ page_label = <<>> /\ sort_index = <<>> /\ effective_label = <<>>
    /\ syntax = "org" /\ citation_key = NoCitationKey
    /\ current_chapters = <<>> /\ content = <<>>
    /\ n_attachments = 0 /\ att_index = 0 /\ ann_index = 0 /\ ch_index = 0
    /\ att_mark = 0 /\ ann_mark = 0 /\ prev_chapters = <<>> /\ budget = 0
    /\ annotations_data = <<>>

\* The variables no call touches.
concurrentRest == <<pc, syntax, citation_key, annotations, sorted_anns, chapter_map, page_label,
                    sort_index, effective_label, chapters, current_chapters, content,
                    n_attachments, att_index, ann_index, ch_index, att_mark, ann_mark,
                    prev_chapters, budget, annotations_data, helperVars>>

CallMulti(call) == Len(call.attachments) > 1

\* Where a call goes on after an annotation's block or an attachment's notice.
AfterAttachment(call, att) == IF att = Len(call.attachments) THEN "done" ELSE "attachment"

AfterBlock(call) ==
    IF call.ann_index < Len(call.sorted_anns) THEN "annotation"
    ELSE AfterAttachment(call, call.att_index)

\* The header of the document.
CallBeginDocument(c) ==
    /\ calls[c].pc = "start"
    /\ calls' = [calls EXCEPT
          ![c].content = DocumentHeader(calls[c].syntax, calls[c].citation_key),
          ![c].pc = AfterAttachment(calls[c], 0)]
    /\ UNCHANGED <<heap, concurrentRest>>

\* An attachment without annotations.
CallBeginEmptyAttachment(c) ==
    LET call == calls[c]
        att  == call.att_index + 1
    IN  /\ call.pc = "attachment"
        /\ call.attachments[att].annotations = <<>>
        /\ calls' = [calls EXCEPT
              ![c].att_index = att,
              ![c].content = call.content
                  \o AttachmentHeaderLines(call.syntax, CallMulti(call))
                  \o <<Line("notice", <<>>, "", 0), Blank>>,
              ![c].pc = AfterAttachment(call, att)]
        /\ UNCHANGED <<heap, concurrentRest>>

\* An attachment with annotations: the let* that sorts them and makes the table.
CallBeginAttachment(c) ==
    LET call == calls[c]
        att  == call.att_index + 1
        id   == NewTableId(heap)
    IN  /\ call.pc = "attachment"
        /\ call.attachments[att].annotations # <<>>
        /\ heap' = Store(heap, id, EmptyHash)
        /\ calls' = [calls EXCEPT
              ![c].att_index = att,
              ![c].content = call.content
                  \o AttachmentHeaderLines(call.syntax, CallMulti(call)),
              ![c].sorted_anns = ZoteroSortAnnotations(call.attachments[att].annotations),
              ![c].chapter_map = call.attachments[att].chapter_map,
              ![c].current_chapters = id,
              ![c].ann_index = 0,
              ![c].pc = "annotation"]
        /\ UNCHANGED concurrentRest

\* The next annotation: its chapters are resolved.
CallBeginAnnotation(c) ==
    LET call  == calls[c]
        ann   == call.sorted_anns[call.ann_index + 1]
        found == IF call.chapter_map # <<>>
                 THEN GetChaptersForPage(call.chapter_map, EffectiveLabel(ann))
                 ELSE <<>>
    IN  /\ call.pc = "annotation"
        /\ calls' = [calls EXCEPT
              ![c].ann_index = call.ann_index + 1,
              ![c].chapters = found,
              ![c].ch_index = 0,
              ![c].pc = IF found = <<>> THEN "block" ELSE "chapter"]
        /\ UNCHANGED <<heap, concurrentRest>>

\* The next chapter of the chain, against the call's table in the store.
CallVisitChapter(c) ==
    LET call  == calls[c]
        ch    == call.chapters[call.ch_index + 1]
        table == heap[call.current_chapters]
        next  == IF call.ch_index + 1 = Len(call.chapters) THEN "block" ELSE "chapter"
    IN  /\ call.pc = "chapter"
        /\ IF AlreadyOpen(table, ch.level, ch.title)
           THEN /\ calls' = [calls EXCEPT ![c].ch_index = call.ch_index + 1, ![c].pc = next]
                /\ heap' = heap
           ELSE /\ heap' = Store(heap, call.current_chapters,
                                 OpenHeading(table, ch.level, ch.title))
                /\ calls' = [calls EXCEPT
                      ![c].ch_index = call.ch_index + 1,
                      ![c].content = call.content
                          \o <<ChapterHeading(call.syntax, CallMulti(call), ch.level, ch.title),
                               Blank>>,
                      ![c].pc = next]
        /\ UNCHANGED concurrentRest

\* The annotation's block.
CallRenderBlock(c) ==
    LET call      == calls[c]
        ann_lines == FormatSingleAnnotation(call.syntax, call.sorted_anns[call.ann_index],
                                            call.citation_key)
    IN  /\ call.pc = "block"
        /\ calls' = [calls EXCEPT
              ![c].content = IF ann_lines # <<>> THEN call.content \o ann_lines \o <<Blank>>
                             ELSE call.content,
              ![c].pc = AfterBlock(call)]
        /\ UNCHANGED <<heap, concurrentRest>>

NextConcurrent ==
    \E c \in CallIds :
        \/ CallBeginDocument(c)
        \/ CallBeginEmptyAttachment(c)
        \/ CallBeginAttachment(c)
        \/ CallBeginAnnotation(c)
        \/ CallVisitChapter(c)
        \/ CallRenderBlock(c)

SpecConcurrent == InitConcurrent /\ [][NextConcurrent]_vars

----------------------------------------------------------------------------
(* Claims about concurrent renders *)

\* The lines a chain adds against table h, and the table afterwards.
RECURSIVE AloneChain(_, _, _, _)
AloneChain(chain, h, syn, multi) ==
    IF chain = <<>> THEN [lines |-> <<>>, table |-> h]
    ELSE LET ch == Head(chain)
         IN  IF ch.level \in DOMAIN h /\ h[ch.level] = ch.title
             THEN AloneChain(Tail(chain), h, syn, multi)
             ELSE LET h2   == [l \in {k \in DOMAIN h : k < ch.level} \cup {ch.level} |->
                                  IF l = ch.level THEN ch.title ELSE h[l]]
                      rest == AloneChain(Tail(chain), h2, syn, multi)
                      mark == IF syn = "org" THEN "*" ELSE "#"
                  IN  [lines |->
                          <<Line("heading",
                                 [k \in 1..((IF multi THEN 2 ELSE 1) + ch.level) |-> mark],
                                 ch.title, 0),
                            Blank>> \o rest.lines,
                       table |-> rest.table]

\* The lines of the annotations of one attachment, taken in order from table h.
RECURSIVE AloneAnnotations(_, _, _, _, _, _)
AloneAnnotations(anns, map, h, syn, key, multi) ==
    IF anns = <<>> THEN <<>>
    ELSE LET chain == IF map = <<>> THEN <<>>
                      ELSE GetChaptersForPage(map, EffectiveLabel(Head(anns)))
             e     == AloneChain(chain, h, syn, multi)
             block == FormatSingleAnnotation(syn, Head(anns), key)
         IN  e.lines \o (IF block = <<>> THEN <<>> ELSE block \o <<Blank>>)
                 \o AloneAnnotations(Tail(anns), map, e.table, syn, key, multi)

\* The lines of the attachments from the k-th on.
RECURSIVE AloneAttachments(_, _, _, _)
AloneAttachments(atts, k, syn, key) ==
    IF k > Len(atts) THEN <<>>
    ELSE LET multi  == Len(atts) > 1
             mark   == IF syn = "org" THEN "*" ELSE "#"
             header == IF multi
                       THEN <<Line("heading", <<mark, mark>>, "attachment-title", 0), Blank>>
                       ELSE <<>>
             body   == IF atts[k].annotations = <<>>
                       THEN <<Line("notice", <<>>, "", 0), Blank>>
                       ELSE AloneAnnotations(ZoteroSortAnnotations(atts[k].annotations),
                                             atts[k].chapter_map, <<>>, syn, key, multi)
         IN  header \o body \o AloneAttachments(atts, k + 1, syn, key)

\* The document a call yields when it runs alone.
AloneDocument(call) ==
    DocumentHeader(call.syntax, call.citation_key)
        \o AloneAttachments(call.attachments, 1, call.syntax, call.citation_key)

SameInput(c, d) ==
    /\ calls[c].syntax = calls[d].syntax
    /\ calls[c].citation_key = calls[d].citation_key
    /\ calls[c].attachments = calls[d].attachments

\* C11: no state is shared across render calls: under every interleaving of the
\* steps of concurrent calls, each with its own heading table, a finished call has
\* yielded the document it yields when run alone, and two renders of the same
\* item, citation key and chapter maps have yielded the same document.
C11_CallsDoNotInterfere ==
    \A c \in DOMAIN calls :
        calls[c].pc = "done" =>
            /\ calls[c].content = AloneDocument(calls[c])
            /\ \A d \in DOMAIN calls :
                  (calls[d].pc = "done" /\ SameInput(c, d)) =>
                      calls[d].content = calls[c].content

\* Two renders of the same item have finished, the second having made its heading
\* table and pushed its chapter heading between two annotations of the first.
C11_Witness ==
    /\ DOMAIN calls # {}
    /\ \A c \in DOMAIN calls : calls[c].pc = "done"
    /\ SameInput(1, 2)
    /\ Len(calls[1].attachments[1].annotations) = 2
    /\ calls[1].current_chapters = 1 /\ calls[2].current_chapters = 2
    /\ heap[1] = heap[2] /\ heap[1] # <<>>

----------------------------------------------------------------------------
(* Text repair: zotero-normalize-text-encoding.  A text is a sequence of       *)
(* characters; an ASCII character is written as itself, any other character by *)
(* its code point ("U+00E2" is a with circumflex).  Nil is nil.                 *)

AsciiUpper == <<"A", "B", "C", "D", "E", "F", "G", "H", "I", "J", "K", "L", "M", "N", "O", "P",
                "Q", "R", "S", "T", "U", "V", "W", "X", "Y", "Z">>
AsciiLower == <<"a", "b", "c", "d", "e", "f", "g", "h", "i", "j", "k", "l", "m", "n", "o", "p",
                "q", "r", "s", "t", "u", "v", "w", "x", "y", "z">>

\* The letters with two cases among the characters of the texts below.
UpperCase == AsciiUpper \o <<"U+00C0", "U+00C2", "U+00C3">>
LowerCase == AsciiLower \o <<"U+00E0", "U+00E2", "U+00E3">>

\* The case table by which string-match folds case.
CaseTable ==
    [c \in {UpperCase[i] : i \in DOMAIN UpperCase} |->
        LowerCase[CHOOSE i \in DOMAIN UpperCase : UpperCase[i] = c]]

Downcase(c) == IF c \in DOMAIN CaseTable THEN CaseTable[c] ELSE c

\* Two characters match; fold is case-fold-search.
CharMatch(a, b, fold) == IF fold THEN Downcase(a) = Downcase(b) ELSE a = b

\* The literal pat matches str at position i.
LooksAt(str, i, pat, fold) ==
    /\ i + Len(pat) - 1 <= Len(str)
    /\ \A k \in 1..Len(pat) : CharMatch(str[i + k - 1], pat[k], fold)

RECURSIVE ReplaceLiteralFrom(_, _, _, _, _)
ReplaceLiteralFrom(str, i, pat, rep, fold) ==
    IF i > Len(str) THEN <<>>
    ELSE IF LooksAt(str, i, pat, fold)
         THEN rep \o ReplaceLiteralFrom(str, i + Len(pat), pat, rep, fold)
         ELSE <<str[i]>> \o ReplaceLiteralFrom(str, i + 1, pat, rep, fold)

\* (replace-regexp-in-string (regexp-quote pat) rep str t t): every match of pat,
\* leftmost first and not overlapping, becomes rep.
ReplaceLiteral(str, pat, rep, fold) ==
    IF \E i \in DOMAIN str : CharMatch(str[i], pat[1], fold)
    THEN ReplaceLiteralFrom(str, 1, pat, rep, fold)
    ELSE str

\* replacements: the pairs (pattern . replacement), in the order of the list.
Replacements ==
    <<
      <<<<"U+00E2">>,
        <<"\"">>>>,
      <<<<"U+00E2">>,
        <<"\"">>>>,
      <<<<"U+00E2">>,
        <<"'">>>>,
      <<<<"U+00E2">>,
        <<"'">>>>,
      <<<<"U+00E2">>,
        <<"U+2014">>>>,
      <<<<"U+00E2">>,
        <<"U+2013">>>>,
      <<<<"U+00C3", "U+00A1">>,
        <<"U+00E1">>>>,
      <<<<"U+00C3", "U+00A9">>,
        <<"U+00E9">>>>,
      <<<<"U+00C3", "U+00AD">>,
        <<"U+00ED">>>>,
      <<<<"U+00C3", "U+00B3">>,
        <<"U+00F3">>>>,
      <<<<"U+00C3", "U+00BA">>,
        <<"U+00FA">>>>,
      <<<<"U+00C3", "U+00B1">>,
        <<"U+00F1">>>>,
      <<<<"U+00C3">>,
        <<"U+00C0">>>>,
      <<<<"U+00C3", "U+00A8">>,
        <<"U+00E8">>>>,
      <<<<"U+00C3", "U+00AC">>,
        <<"U+00EC">>>>,
      <<<<"U+00C3", "U+00B2">>,
        <<"U+00F2">>>>,
      <<<<"U+00C3", "U+00B9">>,
        <<"U+00F9">>>>,
      <<<<"U+00C3", "U+00A4">>,
        <<"U+00E4">>>>,
      <<<<"U+00C3", "U+00AB">>,
        <<"U+00EB">>>>,
      <<<<"U+00C3", "U+00AF">>,
        <<"U+00EF">>>>,
      <<<<"U+00C3", "U+00B6">>,
        <<"U+00F6">>>>,
      <<<<"U+00C3", "U+00BC">>,
        <<"U+00FC">>>>,
      <<<<"U+00C3", "U+00A7">>,
        <<"U+00E7">>>>,
      <<<<"U+00E2", "U+00A2">>,
        <<"U+2022">>>>,
      <<<<"U+00E2", "U+00A6">>,
        <<"U+2026">>>>,
      <<<<"U+00C2", "U+00B0">>,
        <<"U+00B0">>>>,
      <<<<"U+00C2", "U+00B1">>,
        <<"U+00B1">>>>,
      <<<<"U+00C2", "U+00B2">>,
        <<"U+00B2">>>>,
      <<<<"U+00C2", "U+00B3">>,
        <<"U+00B3">>>>,
      <<<<"U+00C2", "U+00BD">>,
        <<"U+00BD">>>>,
      <<<<"U+00C2", "U+00BC">>,
        <<"U+00BC">>>>,
      <<<<"U+00C2", "U+00BE">>,
        <<"U+00BE">>>>,
      <<<<"U+00C2", "U+00A9">>,
        <<"U+00A9">>>>,
      <<<<"U+00C2", "U+00AE">>,
        <<"U+00AE">>>>,
      <<<<"U+00E2", "U+00B9">>,
        <<"U+2039">>>>,
      <<<<"U+00E2", "U+00BA">>,
        <<"U+203A">>>>,
      <<<<"U+00C2", "U+00AB">>,
        <<"U+00AB">>>>,
      <<<<"U+00C2", "U+00BB">>,
        <<"U+00BB">>>>,
      <<<<"p", "e", "U+00C2", "U+00BA", "p", "l", "e">>,
        <<"p", "e", "o", "p", "l", "e">>>>,
      <<<<"p", "e", "\"", "U+00BA", "p", "l", "e">>,
        <<"p", "e", "o", "p", "l", "e">>>>,
      <<<<"U+00C3", "U+00A9", "l", "i", "t", "e">>,
        <<"U+00E9", "l", "i", "t", "e">>>>,
      <<<<"U+00C3", "U+00B1", "r", "e", "s">>,
        <<"f", "i", "r", "e", "s">>>>,
      <<<<"d", "U+00C3", "U+00A9", "c", "o", "r">>,
        <<"d", "U+00E9", "c", "o", "r">>>>,
      <<<<"s", "i", "g", "n", "i", "U+00C3", "U+00B1", "c", "a", "n", "t">>,
        <<"s", "i", "g", "n", "i", "f", "i", "c", "a", "n", "t">>>>,
      <<<<"d", "e", "U+00C3", "U+00B1", "c", "i", "e", "n", "c", "i", "e", "s">>,
        <<"d", "e", "f", "i", "c", "i", "e", "n", "c", "i", "e", "s">>>>,
      <<<<"p", "r", "o", "U+00C3", "U+00B1", "t", "a", "b", "i", "l", "i", "t", "y">>,
        <<"p", "r", "o", "f", "i", "t", "a", "b", "i", "l", "i", "t", "y">>>>,
      <<<<"c", "o", "n", "t", "e", "m", "p", "o", "U+00E2", "r", "a", "r", "i", "e", "s">>,
        <<"c", "o", "n", "t", "e", "m", "p", "o", "r", "a", "r", "i", "e", "s">>>>,
      <<<<"c", "o", "n", "t", "e", "m", "p", "o", "\"", "r", "a", "r", "i", "e", "s">>,
        <<"c", "o", "n", "t", "e", "m", "p", "o", "r", "a", "r", "i", "e", "s">>>>,
      <<<<"h", "o", "u", "s", "e", "U+00E2", "h", "o", "l", "d">>,
        <<"h", "o", "u", "s", "e", "h", "o", "l", "d">>>>,
      <<<<"U+00E2", "a", "s", "s", "o", "c", "i", "a", "t", "i", "o", "n", "i", "s", "t", "s", "U+00E2">>,
        <<"\"", "a", "s", "s", "o", "c", "i", "a", "t", "i", "o", "n", "i", "s", "t", "s", "\"">>>>,
      <<<<"U+00E2", "p", "l", "a", "c", "e", "\"">>,
        <<"\"", "p", "l", "a", "c", "e", "\"">>>>,
      <<<<"U+00E2", "p", "u", "r", "c", "h", "a", "s", "i", "n", "g", "\"">>,
        <<"\"", "p", "u", "r", "c", "h", "a", "s", "i", "n", "g", "\"">>>>,
      <<<<"U+00E2", "m", "a", "i", "n", "t", "a", "i", "n", "-", "i", "n", "g">>,
        <<"\"", "m", "a", "i", "n", "t", "a", "i", "n", "-", "i", "n", "g">>>>,
      <<<<"U+00E2", "d", "e", "c", "e", "n", "t", "l", "y", "U+00E2">>,
        <<"\"", "d", "e", "c", "e", "n", "t", "l", "y", "\"">>>>,
      <<<<"U+00E2", "s", "e", "p", "a", "r", "a", "t", "e", " ", "s", "p", "h", "e", "r", "e", "s", ".", "'", "U+00E2">>,
        <<"\"", "s", "e", "p", "a", "r", "a", "t", "e", " ", "s", "p", "h", "e", "r", "e", "s", ".", "'", "\"">>>>,
      <<<<"h", "e", "a", "r", "t", "U+00E2", " ", "i", "s">>,
        <<"h", "e", "a", "r", "t", "\"", " ", "i", "s">>>>,
      <<<<"U+00E2", "d", "o", "g", "s">>,
        <<"\"", "d", "o", "g", "s">>>>,
      <<<<"a", "s", ";", "9">>,
        <<"a", "s", "-">>>>,
      <<<<"a", "s", ";", "9", " ">>,
        <<"a", "s", "-", " ">>>>,
      <<<<"p", "a", "5", "-", "c", "h", "e", "c", "k", "s">>,
        <<"p", "a", "y", "c", "h", "e", "c", "k", "s">>>>,
      <<<<"t", "h", "%", "\\", ".">>,
        <<"t", "h", "e", "y", ".">>>>,
      <<<<"t", "h", "%", " ">>,
        <<"t", "h", "e", "y", " ">>>>,
      <<<<"t", "h", "%">>,
        <<"t", "h", "e", "y">>>>,
      <<<<"u", "n", "d", "e", "n", "l">>,
        <<"u", "n", "d", "e", "r">>>>,
      <<<<"p", "e", "U+00BA", "p", "l", "e">>,
        <<"p", "e", "o", "p", "l", "e">>>>,
      <<<<"c", "o", "n", "t", "e", "m", "p", "o", "U+2014", "r", "a", "r", "i", "e", "s">>,
        <<"c", "o", "n", "t", "e", "m", "p", "o", "r", "a", "r", "i", "e", "s">>>>,
      <<<<"c", "o", "n", "t", "e", "m", "p", "o", "\"", "r", "a", "r", "i", "e", "s">>,
        <<"c", "o", "n", "t", "e", "m", "p", "o", "r", "a", "r", "i", "e", "s">>>>,
      <<<<"e", "x", "\"", "p", "e", "c", "t", "e", "d">>,
        <<"e", "x", "p", "e", "c", "t", "e", "d">>>>,
      <<<<"h", "o", "u", "s", "e", "\"", "h", "o", "l", "d">>,
        <<"h", "o", "u", "s", "e", "h", "o", "l", "d">>>>,
      <<<<"h", "o", "u", "s", "e", "\"", "w", "i", "v", "e", "s">>,
        <<"h", "o", "u", "s", "e", "w", "i", "v", "e", "s">>>>,
      <<<<"s", "i", "n", "g", "l", "e", "\"", "f", "a", "m", "i", "l", "y">>,
        <<"s", "i", "n", "g", "l", "e", "-", "f", "a", "m", "i", "l", "y">>>>,
      <<<<"w", "e", "l", "l", "\"", "p", "u", "b", "l", "i", "c", "i", "z", "e", "d">>,
        <<"w", "e", "l", "l", "-", "p", "u", "b", "l", "i", "c", "i", "z", "e", "d">>>>,
      <<<<"r", "a", "t", "i", "o", "n", "-", "a", "l", "i", "'", "z", "e">>,
        <<"r", "a", "t", "i", "o", "n", "a", "l", "i", "z", "e">>>>,
      <<<<"c", "a", "r", "\"", "r", "i", "e", "d">>,
        <<"c", "a", "r", "r", "i", "e", "d">>>>,
      <<<<"i", "n", "\"", "d", "u", "s", "t", "r", "i", "a", "l", "i", "z", "a", "t", "i", "o", "n">>,
        <<"i", "n", "d", "u", "s", "t", "r", "i", "a", "l", "i", "z", "a", "t", "i", "o", "n">>>>,
      <<<<"s", "e", "l", "f", "\"", "s", "u", "f", "f", "i", "c", "i", "e", "n", "t">>,
        <<"s", "e", "l", "f", "-", "s", "u", "f", "f", "i", "c", "i", "e", "n", "t">>>>,
      <<<<"w", "a", "t", "e", "r", "\"", "c", "o", "o", "l", "e", "d">>,
        <<"w", "a", "t", "e", "r", "-", "c", "o", "o", "l", "e", "d">>>>,
      <<<<"h", "o", "m", "e", "\"", "p", "l", "a", "c", "e", "s">>,
        <<"h", "o", "m", "e", " ", "p", "l", "a", "c", "e", "s">>>>,
      <<<<"w", "o", "r", "k", "\"", "p", "l", "a", "c", "e", "s">>,
        <<"w", "o", "r", "k", " ", "p", "l", "a", "c", "e", "s">>>>,
      <<<<"r", "u", "l", "e", "s", "\"", "t", "o">>,
        <<"r", "u", "l", "e", "s", "U+2014", "t", "o">>>>,
      <<<<"o", "u", "r", "s", "e", "l", "v", "e", "s", "\"", "g", "e", "n", "e", "r", "a", "t", "e">>,
        <<"o", "u", "r", "s", "e", "l", "v", "e", "s", "U+2014", "g", "e", "n", "e", "r", "a", "t", "e">>>>,
      <<<<"h", "o", "m", "e", "\"", "n", "a", "m", "e", "l", "y">>,
        <<"h", "o", "m", "e", "U+2014", "n", "a", "m", "e", "l", "y">>>>,
      <<<<"r", "u", "l", "e", "s", "\"", "U+0080", "U+0094", "t", "o">>,
        <<"r", "u", "l", "e", "s", "U+2014", "t", "o">>>>,
      <<<<"o", "u", "r", "s", "e", "l", "v", "e", "s", "\"", "U+0080", "U+0094", "g", "e", "n", "e", "r", "a", "t", "e">>,
        <<"o", "u", "r", "s", "e", "l", "v", "e", "s", "U+2014", "g", "e", "n", "e", "r", "a", "t", "e">>>>,
      <<<<"h", "o", "m", "e", "\"", "U+0080", "U+0094", "n", "a", "m", "e", "l", "y">>,
        <<"h", "o", "m", "e", "U+2014", "n", "a", "m", "e", "l", "y">>>>
    >>

RECURSIVE ApplyReplacementsBetween(_, _, _, _)
\* The pairs lo..hi of the dolist applied to str one after the other, in list
\* order.  The range is evaluated in two halves, the first before the second, so
\* that the evaluation does not nest once per pair.
ApplyReplacementsBetween(str, lo, hi, fold) ==
    IF lo > hi THEN str
    ELSE IF lo = hi
    THEN ReplaceLiteral(str, Replacements[lo][1], Replacements[lo][2], fold)
    ELSE LET mid == (lo + hi) \div 2
             replaced == ApplyReplacementsBetween(str, lo, mid, fold)
         IN  IF replaced = str THEN ApplyReplacementsBetween(str, mid + 1, hi, fold)
             ELSE ApplyReplacementsBetween(replaced, mid + 1, hi, fold)

\* The dolist over replacements, from the k-th pair on.
ApplyReplacements(str, k, fold) ==
    ApplyReplacementsBetween(str, k, Len(Replacements), fold)

\* a-zA-Z
AsciiLetters == {AsciiUpper[i] : i \in DOMAIN AsciiUpper} \cup {AsciiLower[i] : i \in DOMAIN AsciiLower}

EmDash == "U+2014"

\* The three patterns before"[^a-zA-Z]*after and their replacements.
RegexReplacements ==
    <<[before |-> <<"r", "u", "l", "e", "s", "\"">>, after |-> <<"t", "o">>,
       rep |-> <<"r", "u", "l", "e", "s", EmDash, "t", "o">>],
      [before |-> <<"o", "u", "r", "s", "e", "l", "v", "e", "s", "\"">>,
       after |-> <<"g", "e", "n", "e", "r", "a", "t", "e">>,
       rep |-> <<"o", "u", "r", "s", "e", "l", "v", "e", "s", EmDash,
                 "g", "e", "n", "e", "r", "a", "t", "e">>],
      [before |-> <<"h", "o", "m", "e", "\"">>, after |-> <<"n", "a", "m", "e", "l", "y">>,
       rep |-> <<"h", "o", "m", "e", EmDash, "n", "a", "m", "e", "l", "y">>]>>

RECURSIVE SkipNonLetters(_, _)
\* [^a-zA-Z]* from position j: the position after the run.  The run is taken
\* whole, since what follows it in each pattern is a letter.
SkipNonLetters(str, j) ==
    IF j <= Len(str) /\ str[j] \notin AsciiLetters THEN SkipNonLetters(str, j + 1) ELSE j

\* The position after the match of rule at i, 0 when it does not match there.
RegexMatchEnd(str, i, rule, fold) ==
    IF ~LooksAt(str, i, rule.before, fold) THEN 0
    ELSE LET j == SkipNonLetters(str, i + Len(rule.before))
         IN  IF LooksAt(str, j, rule.after, fold) THEN j + Len(rule.after) ELSE 0

RECURSIVE ReplaceRegexFrom(_, _, _, _)
ReplaceRegexFrom(str, i, rule, fold) ==
    IF i > Len(str) THEN <<>>
    ELSE LET e == RegexMatchEnd(str, i, rule, fold)
         IN  IF e > 0 THEN rule.rep \o ReplaceRegexFrom(str, e, rule, fold)
             ELSE <<str[i]>> \o ReplaceRegexFrom(str, i + 1, rule, fold)

RECURSIVE ApplyRegexReplacements(_, _, _)
ApplyRegexReplacements(str, k, fold) ==
    IF k > Len(RegexReplacements) THEN str
    ELSE ApplyRegexReplacements(ReplaceRegexFrom(str, 1, RegexReplacements[k], fold),
                                k + 1, fold)

ZoteroNormalizeTextEncodingNilAsEmpty(str, fold) ==
    ApplyRegexReplacements(ApplyReplacements(IF str = Nil THEN <<>> ELSE str, 1, fold), 1, fold)

\* zotero-normalize-text-encoding
ZoteroNormalizeTextEncoding(str, fold) ==
    IF str = Nil THEN Nil
    ELSE ApplyRegexReplacements(ApplyReplacements(str, 1, fold), 1, fold)

\* The other variables while a helper is checked on its own.
EngineAtRest ==
    /\ annotations = <<>> /\ sorted_anns = <<>> /\ chapter_map = <<>> /\ chapters = <<>>
    /\ page_label = <<>> /\ sort_index = <<>> /\ effective_label = <<>>
    /\ AssemblerAtRest

engineVars == <<annotations, sorted_anns, chapter_map, chapters, page_label, sort_index,
                effective_label, asmVars>>

MaxPieces == 2
MaxPasses == 2

\* Pieces of text: mis-decoded characters, listed corruptions, parts of the
\* contextual patterns, well-formed text.
RepairPieces ==
    {<<"U+00C2">>, <<"U+00C2", "U+00B0">>, <<"U+00E2">>, <<"U+00C3">>, <<"U+00A9">>,
     <<"t", "h", "%">>, <<"T", "H", "%">>, <<" ">>, <<"g", "r", "o", "w">>,
     <<"r", "u", "l", "e", "s", "\"">>, <<"t", "o">>,
     <<"e", "x", "\"", "p", "e", "c", "t", "e", "d">>, <<"p", "l", "a", "i", "n">>}

RECURSIVE TextsOfPieces(_)
TextsOfPieces(n) ==
    IF n = 0 THEN {<<>>}
    ELSE {piece \o rest : piece \in RepairPieces, rest \in TextsOfPieces(n - 1)}

InitRepair ==
    /\ pc = "repair"
    /\ \/ repair_text = Nil
       \/ \E n \in 0..MaxPieces : repair_text \in TextsOfPieces(n)
    /\ case_fold_search \in BOOLEAN
    /\ repairs = <<repair_text>>
    /\ LinkAtRest /\ CitationKeyAtRest
    /\ EngineAtRest

\* A call of zotero-normalize-text-encoding on the text, or on its own value.
NormalizeTextEncoding ==
    /\ pc = "repair"
    /\ Len(repairs) <= MaxPasses
    /\ repair_text' = ZoteroNormalizeTextEncoding(repair_text, case_fold_search)
    /\ repairs' = Append(repairs, repair_text')
    /\ UNCHANGED <<pc, case_fold_search, attachment_id, annotation_key, library_id, content_type,
                   built_link, zotero__bbt_available, requests, result, engineVars>>

NextRepair == NormalizeTextEncoding

SpecRepair == InitRepair /\ [][NextRepair]_vars

----------------------------------------------------------------------------
(* Claims about the text repair *)

\* C21: the repair is idempotent: repairing the value of a repair changes nothing.
C21_RepairIdempotent == Len(repairs) >= 3 => repairs[3] = repairs[2]

\* Some pattern of the list or one of the contextual patterns occurs in str.
PatternOccurs(str, fold) ==
    \E i \in DOMAIN str :
        \/ \E k \in DOMAIN Replacements : LooksAt(str, i, Replacements[k][1], fold)
        \/ \E k \in DOMAIN RegexReplacements : RegexMatchEnd(str, i, RegexReplacements[k], fold) > 0

CodePoints == {"U+00C2", "U+00B0", "U+00E2", "U+00C3", "U+00A9"}

AsciiOnly(str) == str # Nil /\ \A i \in DOMAIN str : str[i] \notin CodePoints

C22_WitnessNil == Len(repairs) >= 2 /\ repairs[1] = Nil /\ repairs[2] = Nil

----------------------------------------------------------------------------
(* Link builders: zotero--build-open-pdf-link (zotero-api.el) and               *)
(* generateZoteroOrgLink (annotationFormatter.ts).  A link is the sequence of   *)
(* the pieces concatenated, literal pieces being one element each.              *)

\* (push x list)
Push(x, list) == <<x>> \o list

NReverseKeepOrder(list) == list

\* nreverse
NReverse(list) == [i \in 1..Len(list) |-> list[Len(list) + 1 - i]]

\* (mapconcat #'identity list sep)
RECURSIVE MapConcat(_, _)
MapConcat(list, sep) ==
    IF list = <<>> THEN <<>>
    ELSE IF Len(list) = 1 THEN list[1]
    ELSE list[1] \o <<sep>> \o MapConcat(Tail(list), sep)

\* (and s (not (string-empty-p s)))
NonEmptyString(s) == s # Nil /\ s # <<>>

\* zotero--build-open-pdf-link
ZoteroBuildOpenPdfLink(att, label, key) ==
    LET base    == <<"zotero://open-pdf/", "library", "/items/">> \o att
        params0 == <<>>
        params1 == IF NonEmptyString(label) THEN Push(<<"page=">> \o label, params0)
                   ELSE params0
        params2 == IF NonEmptyString(key) THEN Push(<<"annotation=">> \o key, params1)
                   ELSE params1
    IN  IF params2 # <<>>
        THEN base \o <<"?">> \o MapConcat(NReverse(params2), "&")
        ELSE base

NaN == [nan |-> TRUE, value |-> 0]

\* parseInt: leading white space is skipped, then an optional sign and the longest
\* run of digits are read; without a digit the value is NaN (so for undefined).
ParseInt(s) ==
    LET t    == SkipBlanks(IF s = Nil THEN <<>> ELSE s)
        neg  == t # <<>> /\ Head(t) = "-"
        body == IF t # <<>> /\ Head(t) \in {"-", "+"} THEN Tail(t) ELSE t
        val  == DigitsValue(SubSeq(body, 1, DigitRun(body)))
    IN  IF DigitRun(body) = 0 THEN NaN
        ELSE [nan |-> FALSE, value |-> IF neg THEN 0 - val ELSE val]

\* v || 1: NaN and 0 are falsy.
OrOne(v) == IF v.nan \/ v.value = 0 THEN 1 ELSE v.value

\* `${n}` for an integer n
NumberToString(n) == IF n < 0 THEN <<"-">> \o NatDigits(0 - n) ELSE NatDigits(n)

\* libraryID === 1 ? "library" : `groups/${libraryID}`
LibraryPath(id) == IF id = 1 THEN <<"library">> ELSE <<"groups/">> \o NumberToString(id)

LocationOrDefaultVerbatim(label) == IF label = Nil THEN <<>> ELSE label

\* annotation.annotationPageLabel || "Location": undefined and "" are falsy.
LocationOrDefault(label) == IF label = Nil \/ label = <<>> THEN <<"Location">> ELSE label

\* generateZoteroOrgLink
GenerateZoteroOrgLink(att, id, label, key, type) ==
    IF type = "application/epub+zip"
    THEN <<"[[", "zotero://open-epub/">> \o LibraryPath(id) \o <<"/items/">> \o att
             \o <<"?", "annotation=">> \o key
             \o <<"][">> \o LocationOrDefault(label) \o <<"]]:">>
    ELSE LET page == OrOne(ParseInt(label))
         IN  <<"[[", "zotero://open-pdf/">> \o LibraryPath(id) \o <<"/items/">> \o att
                 \o <<"?", "page=">> \o NumberToString(page)
                 \o <<"&", "annotation=">> \o key
                 \o <<"][", "Page ">> \o NumberToString(page) \o <<"]]:">>

SCh3 == <<"C", "h", " ", "3">>
S12v == <<"1", "2", "v">>
SBlank5 == <<" ", "5">>
SMinus5 == <<"-", "5">>
SK == <<"K">>
SATT == <<"A">>

LinkPageLabels == {Nil, <<>>, S0, S5, S10, Siv, S12v, SBlank5, SMinus5, SCh3}
LinkAnnotationKeys == {Nil, <<>>, SK}
LinkAttachmentIds == {SATT}
\* 1 is the personal library (library-id nil in zotero-api.el), the others groups.
LinkLibraryIds == {1, 2, 12}
LinkContentTypes == {"application/pdf", "application/epub+zip", "text/html"}

InitLink ==
    /\ pc = "link_input"
    /\ page_label \in LinkPageLabels
    /\ annotation_key \in LinkAnnotationKeys
    /\ attachment_id \in LinkAttachmentIds
    /\ library_id \in LinkLibraryIds
    /\ content_type \in LinkContentTypes
    /\ built_link = <<>>
    /\ RepairAtRest /\ CitationKeyAtRest
    /\ annotations = <<>> /\ sorted_anns = <<>> /\ chapter_map = <<>> /\ chapters = <<>>
    /\ sort_index = <<>> /\ effective_label = <<>>
    /\ AssemblerAtRest

linkRest == <<page_label, annotation_key, attachment_id, library_id, content_type,
              repair_text, case_fold_search, repairs, zotero__bbt_available, requests, result,
              annotations, sorted_anns, chapter_map, chapters, sort_index, effective_label,
              asmVars>>

\* The link of an annotation of an item of library library_id, as the renderers of
\* zotero-api.el build it.
BuildOpenPdfLinkCall ==
    /\ pc = "link_input"
    /\ built_link' = ZoteroBuildOpenPdfLink(attachment_id, page_label, annotation_key)
    /\ pc' = "link_el"
    /\ UNCHANGED linkRest

\* The link as AnnotationFormatter builds it; annotation.key is a string.
GenerateZoteroOrgLinkCall ==
    /\ pc = "link_input"
    /\ annotation_key # Nil
    /\ built_link' = GenerateZoteroOrgLink(attachment_id, library_id, page_label,
                                           annotation_key, content_type)
    /\ pc' = "link_ts"
    /\ UNCHANGED linkRest

NextLink == BuildOpenPdfLinkCall \/ GenerateZoteroOrgLinkCall

SpecLink == InitLink /\ [][NextLink]_vars

----------------------------------------------------------------------------
(* Claims about the link builders *)

\* The positions of built_link that hold piece.
At(piece) == {i \in DOMAIN built_link : built_link[i] = piece}

\* The pieces of built_link strictly between positions a and b.
Between(a, b) == SubSeq(built_link, a + 1, b - 1)

Only(set) == CHOOSE i \in set : TRUE

\* C23: zotero--build-open-pdf-link yields zotero://open-pdf/library/items/ID and
\* zero, one or two parameters: page= iff the page label is non-empty, annotation=
\* iff the annotation key is non-empty, page before annotation, a single & between
\* two parameters, ? before the first, and neither ? nor & without a parameter.
C23_OpenPdfLinkParameters ==
    pc = "link_el" =>
        LET hasPage == page_label # Nil /\ page_label # <<>>
            hasKey  == annotation_key # Nil /\ annotation_key # <<>>
            n       == (IF hasPage THEN 1 ELSE 0) + (IF hasKey THEN 1 ELSE 0)
            base    == 3 + Len(attachment_id)
        IN  /\ SubSeq(built_link, 1, base)
                   = <<"zotero://open-pdf/", "library", "/items/">> \o attachment_id
            /\ Cardinality(At("page=")) = (IF hasPage THEN 1 ELSE 0)
            /\ Cardinality(At("annotation=")) = (IF hasKey THEN 1 ELSE 0)
            /\ Cardinality(At("?")) = (IF n > 0 THEN 1 ELSE 0)
            /\ Cardinality(At("&")) = (IF n = 2 THEN 1 ELSE 0)
            /\ n = 0 => Len(built_link) = base
            /\ n > 0 => /\ built_link[base + 1] = "?"
                        /\ built_link[base + 2] \in {"page=", "annotation="}
                        /\ built_link[Len(built_link)] \notin {"?", "&"}
            /\ hasPage => /\ built_link[base + 2] = "page="
                          /\ SubSeq(built_link, base + 3, base + 2 + Len(page_label)) = page_label
            /\ hasKey => SubSeq(built_link, Len(built_link) - Len(annotation_key),
                                Len(built_link)) = <<"annotation=">> \o annotation_key
            /\ n = 2 => Only(At("page=")) < Only(At("&"))
                        /\ Only(At("&")) + 1 = Only(At("annotation="))

\* Both parameters have been written.
C23_Witness ==
    /\ pc = "link_el"
    /\ built_link = <<"zotero://open-pdf/", "library", "/items/", "A", "?", "page=", "5", "&",
                      "annotation=", "K">>

\* The value of a page label that is an integer: optional blanks, an optional
\* sign, then digits, of which the leading ones count.
ReadsAsInteger(label) ==
    /\ label # Nil
    /\ \E i \in DOMAIN label :
          /\ label[i] \in Digits
          /\ \A j \in 1..(i - 1) : label[j] = " " \/ (label[j] \in {"-", "+"} /\ j = i - 1)

\* The page parameter and the number of the display label of a PDF-style link.
PageParameter == Between(Only(At("page=")), Only(At("&")))
DisplayNumber == Between(Only(At("Page ")), Only(At("]]:")))

\* C24: for a content type other than application/epub+zip generateZoteroOrgLink
\* parses the page label as an integer, takes 1 when that fails, and writes the
\* number both as the page parameter and in the display label "Page n".
C24_PageNumberOrOne ==
    (pc = "link_ts" /\ content_type # "application/epub+zip") =>
        /\ At("page=") # {} /\ At("Page ") # {}
        /\ PageParameter = DisplayNumber
        /\ PageParameter = IF ReadsAsInteger(page_label)
                           THEN NumberToString(StringToNumber(page_label))
                           ELSE <<"1">>

C25_WitnessLocation ==
    /\ pc = "link_ts" /\ content_type = "application/epub+zip"
    /\ page_label = <<>>
    /\ Between(Only(At("][")), Only(At("]]:"))) = <<"Location">>

\* The library path segment of a link: what stands between the scheme and /items/.
LibrarySegment ==
    Between(Only({i \in DOMAIN built_link :
                     built_link[i] \in {"zotero://open-pdf/", "zotero://open-epub/"}}),
            Only(At("/items/")))

\* C26: in every link the library path segment is "library" exactly when the
\* library id is 1, and groups/{id} for every other id.
C26_LibraryPath ==
    pc \in {"link_el", "link_ts"} =>
        LibrarySegment = IF library_id = 1 THEN <<"library">>
                         ELSE <<"groups/">> \o NatDigits(library_id)

----------------------------------------------------------------------------
(* Citation key lookup: zotero--bbt-available-p and                             *)
(* zotero-get-citation-key-for-item.  The services answer as they please; each  *)
(* request made is logged with its answer.                                      *)

Request(to, answer) == [request |-> to, answer |-> answer]

\* Answers to the probe: 200 with body "ready", another reply, an error signalled.
ProbeAnswers == {<<"ready">>, <<"busy">>, <<"error">>}

BbtAvailablePErrorUncached(flag, answer) ==
    IF flag = "unavailable" THEN [flag |-> flag, requests |-> <<>>, value |-> FALSE]
    ELSE IF flag = "t" THEN [flag |-> flag, requests |-> <<>>, value |-> TRUE]
    ELSE [flag |-> CASE answer = <<"ready">> -> "t"
                     [] answer = <<"busy">> -> "unavailable"
                     [] OTHER -> "nil",
          requests |-> <<Request("probe", answer)>>,
          value |-> answer = <<"ready">>]

\* zotero--bbt-available-p: the flag afterwards, the requests made, the value.
BbtAvailableP(flag, answer) ==
    IF flag = "unavailable" THEN [flag |-> flag, requests |-> <<>>, value |-> FALSE]
    ELSE IF flag = "t" THEN [flag |-> flag, requests |-> <<>>, value |-> TRUE]
    ELSE [flag |-> IF answer = <<"ready">> THEN "t" ELSE "unavailable",
          requests |-> <<Request("probe", answer)>>,
          value |-> answer = <<"ready">>]

SBbtKey == <<"b", "k">>

\* Values of zotero--bbt-get-citation-key: a key, or nil (no result, or an error).
RpcAnswers == {SBbtKey, Nil}

\* Values of zotero-export-item-bibtex: an entry with key "fb", one with key
\* "sm", text without an entry, or nil (status other than 200, or an error).
EntryFb == <<"@", "a", "{", "f", "b", ",", "t", "}">>
EntrySm == <<"@", "a", "{", "s", "m", ",", "t", "}">>
EntryNone == <<"t">>
ExportAnswers == {EntryFb, EntrySm, EntryNone, Nil}

\* \w among the characters of the entries
WordChars == {"a", "b", "f", "m", "s", "t"}

\* The characters [^,\\s-] excludes: inside brackets the backslash and the s
\* stand for themselves.
KeyStoppers == {",", "\\", "s", "-"}

RECURSIVE RunEnd(_, _, _)
\* The position after the longest run from i of characters that satisfy in/out.
RunEnd(e, i, stop) ==
    IF i <= Len(e) /\ e[i] \notin stop THEN RunEnd(e, i + 1, stop) ELSE i

RECURSIVE WordEnd(_, _)
WordEnd(e, i) == IF i <= Len(e) /\ e[i] \in WordChars THEN WordEnd(e, i + 1) ELSE i

RECURSIVE BlanksEnd(_, _)
BlanksEnd(e, i) == IF i <= Len(e) /\ e[i] = " " THEN BlanksEnd(e, i + 1) ELSE i

\* Group 1 of "@\\w+\\s-*{\\s-*\\([^,\\s-]+\\)\\s-*," matched with its @ at i; Nil
\* when the pattern does not match there.
BibtexKeyAt(e, i) ==
    LET w == WordEnd(e, i + 1)
        b == BlanksEnd(e, w)
        k == b + 1
        r == RunEnd(e, k, KeyStoppers)
        g == BlanksEnd(e, k)
    IN  IF e[i] = "@" /\ w > i + 1 /\ b <= Len(e) /\ e[b] = "{"
           /\ r > k /\ r <= Len(e) /\ e[r] = ","
        THEN IF g = r THEN <<" ">> ELSE SubSeq(e, g, r - 1)
        ELSE Nil

\* (when (string-match ...) (match-string 1 bibtex-data)): the leftmost match.
BibtexKey(e) ==
    IF \E i \in DOMAIN e : BibtexKeyAt(e, i) # Nil
    THEN BibtexKeyAt(e, CHOOSE i \in DOMAIN e :
                            /\ BibtexKeyAt(e, i) # Nil
                            /\ \A j \in 1..(i - 1) : BibtexKeyAt(e, j) = Nil)
    ELSE Nil

NeedsExportAlways(bbt_key) == TRUE

\* (or bbt-key (condition-case ... export ...)): the second form is evaluated
\* when the first gave nil.
NeedsExport(bbt_key) == bbt_key = Nil

\* zotero-get-citation-key-for-item: the flag afterwards, the requests made, the value.
GetCitationKeyForItem(flag, probe, rpc, export) ==
    LET available == BbtAvailableP(flag, probe)
        asked     == IF available.value THEN <<Request("json-rpc", rpc)>> ELSE <<>>
        bbt_key   == IF available.value THEN rpc ELSE Nil
    IN  IF NeedsExport(bbt_key)
        THEN [flag |-> available.flag,
              requests |-> available.requests \o asked \o <<Request("export", export)>>,
              value |-> IF bbt_key # Nil THEN bbt_key
                        ELSE IF export = Nil THEN Nil ELSE BibtexKey(export)]
        ELSE [flag |-> available.flag,
              requests |-> available.requests \o asked,
              value |-> bbt_key]

MaxRequests == 4

InitCitationKey ==
    /\ pc = "emacs"
    /\ zotero__bbt_available = "nil"
    /\ requests = <<>>
    /\ result = <<>>
    /\ RepairAtRest /\ LinkAtRest
    /\ EngineAtRest

citationKeyRest == <<repair_text, case_fold_search, repairs, attachment_id, annotation_key,
                     library_id, content_type, built_link, engineVars>>

ZoteroBbtAvailablePCall ==
    \E probe \in ProbeAnswers :
        LET call == BbtAvailableP(zotero__bbt_available, probe)
        IN  /\ Len(requests) + Len(call.requests) <= MaxRequests
            /\ zotero__bbt_available' = call.flag
            /\ requests' = requests \o call.requests
            /\ result' = IF call.value THEN <<"t">> ELSE Nil
            /\ pc' = "bbt_available_p"
            /\ UNCHANGED citationKeyRest

ZoteroGetCitationKeyForItemCall ==
    \E probe \in ProbeAnswers, rpc \in RpcAnswers, export \in ExportAnswers :
        LET call == GetCitationKeyForItem(zotero__bbt_available, probe, rpc, export)
        IN  /\ Len(requests) + Len(call.requests) <= MaxRequests
            /\ zotero__bbt_available' = call.flag
            /\ requests' = requests \o call.requests
            /\ result' = call.value
            /\ pc' = "get_citation_key"
            /\ UNCHANGED citationKeyRest

NextCitationKey == ZoteroBbtAvailablePCall \/ ZoteroGetCitationKeyForItemCall

SpecCitationKey == InitCitationKey /\ [][NextCitationKey]_vars

----------------------------------------------------------------------------
(* Claims about the citation key lookup *)

\* The requests a step adds to the log.
NewRequests == SubSeq(requests', Len(requests) + 1, Len(requests'))

Made(log, to) == {i \in DOMAIN log : log[i].request = to}

\* A key stands in an entry between "{" and ",".
KeyOfEntry(key, e) ==
    e # Nil /\ \E i \in DOMAIN e :
        /\ i + Len(key) + 1 <= Len(e)
        /\ e[i] = "{"
        /\ SubSeq(e, i + 1, i + Len(key)) = key
        /\ e[i + Len(key) + 1] = ","

C27_LookupStep ==
    pc' = "get_citation_key" /\ requests' # requests =>
        LET new      == NewRequests
            rpcs     == Made(new, "json-rpc")
            exports  == Made(new, "export")
            gotKey   == rpcs # {} /\ new[CHOOSE i \in rpcs : TRUE].answer # Nil
        IN  /\ Cardinality(rpcs) <= 1 /\ Cardinality(exports) <= 1
            /\ \A i \in exports : i = Len(new)
            /\ rpcs # {} <=> zotero__bbt_available' = "t"
            /\ exports # {} <=> ~gotKey
            /\ gotKey => result' = new[CHOOSE i \in rpcs : TRUE].answer
            /\ ~gotKey =>
                  LET entry == new[Len(new)].answer
                  IN  result' = Nil \/ (result' # Nil /\ KeyOfEntry(result', entry))

C27_WitnessFallback ==
    /\ pc = "get_citation_key"
    /\ requests = <<Request("probe", <<"error">>), Request("export", EntryFb)>>
    /\ result = <<"f", "b">>

C28_FlagStep ==
    LET new    == NewRequests
        probes == Made(new, "probe")
    IN  /\ zotero__bbt_available # "nil" =>
              /\ zotero__bbt_available' = zotero__bbt_available
              /\ probes = {}
              /\ pc' = "bbt_available_p" =>
                    result' = IF zotero__bbt_available = "t" THEN <<"t">> ELSE Nil
        /\ zotero__bbt_available = "nil" =>
              /\ zotero__bbt_available' \in {"t", "unavailable"}
              /\ probes = {1}
              /\ zotero__bbt_available' = "t" <=> new[1].answer = <<"ready">>
              /\ pc' = "bbt_available_p" =>
                    result' = IF zotero__bbt_available' = "t" THEN <<"t">> ELSE Nil

\* C28: the Better BibTeX flag is checked once: the first call probes the service
\* and sets the flag to t or to unavailable (also when the probe signals an
\* error); afterwards the flag never changes, no probe is made, and each call of
\* zotero--bbt-available-p gives the answer of the first.
C28_CheckedOnce == [][C28_FlagStep]_vars

\* The probe failed with an error, and two lookups later one probe has been made.
C28_Witness ==
    /\ zotero__bbt_available = "unavailable"
    /\ Len(requests) >= 3
    /\ requests[1] = Request("probe", <<"error">>)
    /\ Made(requests, "probe") = {1}
    /\ pc = "bbt_available_p" /\ result = Nil

----------------------------------------------------------------------------
(* The chain of the numeric scan *)

\* The entries of the map that chapters[k] can stand for: same title and level,
\* at or before the target, with no later entry at or before the target at the
\* same or a shallower level.
SourcesOf(k) ==
    {i \in 1..Len(chapter_map) :
        /\ chapter_map[i].title = chapters[k].title
        /\ chapter_map[i].level = chapters[k].level
        /\ StringToNumber(chapter_map[i].lbl) <= StringToNumber(page_label)
        /\ \A j \in (i + 1)..Len(chapter_map) :
              StringToNumber(chapter_map[j].lbl) <= StringToNumber(page_label)
                  => chapter_map[j].level > chapter_map[i].level}

\* C29: in numeric mode the result has at most one title per level, in strictly
\* ascending levels, and is an ancestor chain of the map: each returned entry
\* stands later in the map than every returned entry of a shallower level, and
\* no entry at or before the target of the same or a shallower level follows it.
C29_AncestorChain ==
    (pc = "resolved" /\ NumericMode) =>
        /\ \A k \in 1..(Len(chapters) - 1) : chapters[k].level < chapters[k + 1].level
        /\ \A k \in 1..Len(chapters) : Cardinality(SourcesOf(k)) = 1
        /\ \A k, m \in 1..Len(chapters) :
              k < m => \A i \in SourcesOf(k), j \in SourcesOf(m) : i < j

\* A chain of two levels has been returned from a map of three entries.
C29_Witness ==
    /\ pc = "resolved" /\ NumericMode
    /\ Len(chapter_map) = 3 /\ Len(chapters) = 2
    /\ \E i \in SourcesOf(1), j \in SourcesOf(2) : i < j

\* ---------------------------------------------------------------------------
\* C30: headings before the block, separator only after a block with lines.

\* The lines of content after position n.
LinesAfter(n) == SubSeq(content, n + 1, Len(content))

\* A highlight without text and without tags: the formatter returns no lines
\* for it.
RendersNothing(annotation) ==
    /\ annotation.annotationType \in {"highlight", "underline"}
    /\ annotation.annotationText \in {Nil, ""}
    /\ annotation.tags = <<>>

\* The headings the chapters of the current annotation can produce.
HeadingLinesOf(chs) ==
    {ChapterHeading(syntax, MultiAttachment, chs[i].level, chs[i].title) :
        i \in 1..Len(chs)}

\* While the chapters of an annotation are walked, and when its block is about
\* to be rendered, everything pushed for the annotation so far is heading
\* lines, each followed by a blank line: no line of the block precedes a
\* heading.
OnlyHeadingsSoFar ==
    LET pushed == LinesAfter(ann_mark)
    IN  /\ Len(pushed) % 2 = 0
        /\ Len(pushed) <= 2 * Len(chapters)
        /\ \A i \in 1..Len(pushed) :
               IF i % 2 = 1 THEN pushed[i] \in HeadingLinesOf(chapters)
               ELSE pushed[i] = Blank

\* The step that renders the block of the current annotation.
C30_BlockStep ==
    (pc = "block" /\ pc' = "annotation") =>
        LET annotation == sorted_anns[ann_index]
            added == SubSeq(content', Len(content) + 1, Len(content'))
        IN  /\ OnlyHeadingsSoFar
            /\ current_chapters' = current_chapters
            /\ Len(content') >= Len(content)
            /\ SubSeq(content', 1, Len(content)) = content
            /\ IF RendersNothing(annotation)
               THEN added = <<>>
               ELSE /\ Len(added) >= 2
                    /\ added[Len(added)] = Blank
                    /\ added[1] # Blank

\* A step that walks one chapter of the current annotation: what it pushes and
\* records does not depend on the annotation's text, and it happens with the
\* block not yet rendered.
C30_ChapterStep ==
    (pc = "chapter") =>
        LET ch == chapters[ch_index + 1]
        IN  /\ OnlyHeadingsSoFar
            /\ \/ /\ content' = content
                  /\ current_chapters' = current_chapters
               \/ /\ content' = content \o
                          <<ChapterHeading(syntax, MultiAttachment, ch.level, ch.title),
                            Blank>>
                  /\ current_chapters' # current_chapters

\* C30: for every annotation the assembler emits the chapter headings (and
\* updates the heading table) before the annotation's block, whether or not the
\* block has lines; the block step leaves the heading table alone, pushes
\* nothing at all for an annotation that renders zero lines, and otherwise
\* pushes the lines followed by one blank line.
C30_HeadingsThenBlock == [][C30_BlockStep /\ C30_ChapterStep]_vars

\* An annotation that renders zero lines has been processed: its block step
\* pushed nothing, yet a heading and its blank line were pushed for it.
C30_Witness ==
    /\ pc = "annotation"
    /\ ann_index >= 1
    /\ RendersNothing(sorted_anns[ann_index])
    /\ Len(LinesAfter(ann_mark)) = 2
    /\ LinesAfter(ann_mark)[1] \in HeadingLinesOf(chapters)
====
